---- MODULE Spec2Model ----
(***************************************************************************)
(* A model of the cpm crash-prediction framework (cpm/base): the Model     *)
(* facade with its lock gate, the LayerCollection / Layer graph, the       *)
(* ReferenceCollection with exploded multi-references, the Limits / Values *)
(* validators, and the ResOperator result wrapper.                         *)
(*                                                                         *)
(* Numbers are integers counted in half units (the value n stands for      *)
(* n/2), so that coercion to int (truncation toward zero) is not the       *)
(* identity.  Results of conversions are exact rationals <<num, den>>.     *)
(***************************************************************************)
EXTENDS Integers, Sequences, FiniteSets, TLC

VARIABLES locked, layers, validators, refs, references, chain, threads, op, out

vars == <<locked, layers, validators, refs, references, chain, threads, op, out>>

(***************************************************************************)
(* Bounds of the exploration.                                              *)
(***************************************************************************)
MaxLayers == 2
MaxElements == 4
MaxRefs == 2
MaxValidators == 2
MaxChain == 3

(***************************************************************************)
(* Generic helpers.                                                        *)
(***************************************************************************)
RECURSIVE Concat(_)
Concat(ss) == IF ss = <<>> THEN <<>> ELSE Head(ss) \o Concat(Tail(ss))

RECURSIVE Reverse(_)
Reverse(sq) == IF sq = <<>> THEN <<>> ELSE Append(Reverse(Tail(sq)), Head(sq))

RECURSIVE Join(_, _)
Join(strs, sep) ==
    IF strs = <<>> THEN ""
    ELSE IF Len(strs) = 1 THEN strs[1]
    ELSE strs[1] \o sep \o Join(Tail(strs), sep)

Range(s) == {s[i] : i \in DOMAIN s}

(* itertools.product over a list of lists: the first list varies slowest. *)
RECURSIVE product(_)
product(ls) ==
    IF ls = <<>> THEN << <<>> >>
    ELSE LET rest == product(Tail(ls)) IN
         Concat([i \in 1..Len(Head(ls)) |->
                    [j \in 1..Len(rest) |-> <<Head(ls)[i]>> \o rest[j]]])

(***************************************************************************)
(* Python values that are either an int or a str (layer names, the values  *)
(* of reference levels), and None.                                         *)
(***************************************************************************)
NumV(h) == [s |-> "", t |-> "num", n |-> h]
IntV(i) == NumV(2 * i)
StrV(s) == [s |-> s, t |-> "str", n |-> 0]
None == [s |-> "", t |-> "none", n |-> 0]

Digits == <<"0", "1", "2", "3", "4", "5", "6", "7", "8", "9">>

(* str(value) as Reference.retrieve and the suffix builder apply it (the  *)
(* numbers that reach it are whole and below ten).                        *)
Str(v) == IF v.t = "num" THEN Digits[(v.n \div 2) + 1] ELSE v.s

(***************************************************************************)
(* Element kinds, in the order of Element.__subclasses__().                *)
(***************************************************************************)
Kinds == <<"SPF", "CF", "AF", "Sub", "Hidden", "Result">>

KindSet == Range(Kinds)

(***************************************************************************)
(* Model.__init__: unlocked, no references, validators, layers.            *)
(***************************************************************************)
NoOp == [name |-> "init"]
Ok == [err |-> "none"]
Raise(e) == [err |-> e]

(* The threads that may call predict_one on the model, and a thread that   *)
(* is in no call.                                                          *)
Threads == {1, 2}

Idle ==
    [pc |-> "idle", keys |-> <<>>, kwargs |-> <<>>, k |-> 0, validated |-> <<>>,
     layer |-> 0, e |-> 0, evaluated |-> <<>>, layer_out |-> <<>>,
     result |-> Ok, during |-> {}]

Init ==
    /\ locked = FALSE
    /\ layers = <<>>
    /\ validators = <<>>
    /\ refs = <<>>
    /\ references = <<>>
    /\ chain = <<>>
    /\ threads = [t \in Threads |-> Idle]
    /\ op = NoOp
    /\ out = Ok

(* Model.lock; `was` is the flag the call found. *)
Lock ==
    /\ locked' = TRUE
    /\ op' = [name |-> "lock", was |-> locked]
    /\ out' = Ok
    /\ UNCHANGED <<layers, validators, refs, references, chain, threads>>

(* Model.unlock *)
UnlockIgnored ==
    /\ locked' = locked
    /\ op' = [name |-> "unlock", was |-> locked]
    /\ out' = Ok
    /\ UNCHANGED <<layers, validators, refs, references, chain, threads>>

Unlock ==
    /\ locked' = FALSE
    /\ op' = [name |-> "unlock", was |-> locked]
    /\ out' = Ok
    /\ UNCHANGED <<layers, validators, refs, references, chain, threads>>

(* Model._check_lock: TRUE when the call raises ModelLockedError. *)
check_lock_open == FALSE
check_lock == locked

(***************************************************************************)
(* Layers.  LayerCollection._collection is an OrderedDict keyed by the     *)
(* layer's index; a Layer keeps one list of elements per kind.             *)
(***************************************************************************)
Layer(name) == [name |-> name, elements |-> [k \in KindSet |-> <<>>]]

num_layers == Len(layers)

(* `name in self.collection`: membership among the dict's keys 0..i-1. *)
in_collection(name) ==
    /\ name.t = "num"
    /\ name.n % 2 = 0
    /\ (name.n \div 2) \in 0..(num_layers - 1)

layer_names == {layers[i].name : i \in 1..num_layers}

(* LayerCollection.add_layer: the error it raises, or "none". *)
add_layer_error(name) ==
    LET nm == IF name = None THEN IntV(num_layers) ELSE name IN
    IF in_collection(nm) THEN "ValueError" ELSE "none"

add_layer_result(name) ==
    LET nm == IF name = None THEN IntV(num_layers) ELSE name IN
    Append(layers, Layer(nm))

(* Model.add_layer *)
AddLayer(name) ==
    /\ op' = [name |-> "add_layer", arg |-> name]
    /\ IF check_lock
       THEN /\ out' = Raise("ModelLockedError")
            /\ UNCHANGED layers
       ELSE IF add_layer_error(name) # "none"
       THEN /\ out' = Raise(add_layer_error(name))
            /\ UNCHANGED layers
       ELSE /\ num_layers < MaxLayers
            /\ layers' = add_layer_result(name)
            /\ out' = Ok
    /\ UNCHANGED <<locked, validators, refs, references, chain, threads>>

(***************************************************************************)
(* References.  A Reference is a tree: `levels` names the nesting levels   *)
(* and `data` maps each full path of level values to its leaf, which is a  *)
(* mapping of keys to values or a bare number (`leaf` says which).         *)
(***************************************************************************)
L1Strs == <<"mv", "sv", "a", "a_b", "1">>
L2Strs == <<"kabc", "o", "b_c", "c">>

IndexOf(sq, x) == CHOOSE i \in 1..Len(sq) : sq[i] = x

(* A two-level reference whose leaf mappings differ from path to path. *)
RefR ==
    [name |-> "r", levels |-> <<"l1", "l2">>, keys |-> <<"a">>,
     leaf |-> "mapping",
     data |-> [p \in {<<x, y>> : x \in Range(L1Strs), y \in Range(L2Strs)} |->
                  [a |-> NumV(20 * IndexOf(L1Strs, p[1])
                              + 2 * IndexOf(L2Strs, p[2]))]]]

RefS ==
    [name |-> "s", levels |-> <<>>, keys |-> <<"b">>, leaf |-> "mapping",
     data |-> [p \in {<<>>} |-> [b |-> NumV(2)]]]

reference_names == {references[i].name : i \in 1..Len(references)}

(* ReferenceCollection.add_reference: self._collection[obj.name] = obj *)
collection_add(coll, obj) ==
    IF \E i \in 1..Len(coll) : coll[i].name = obj.name
    THEN [i \in 1..Len(coll) |->
             IF coll[i].name = obj.name THEN obj ELSE coll[i]]
    ELSE Append(coll, obj)

(* Model.add_reference *)
AddReference(obj) ==
    /\ op' = [name |-> "add_reference", arg |-> obj]
    /\ IF check_lock
       THEN /\ out' = Raise("ModelLockedError")
            /\ UNCHANGED <<refs, references>>
       ELSE /\ Len(refs) < MaxRefs
            /\ references' = collection_add(references, obj)
            /\ refs' = Append(refs, obj)
            /\ out' = Ok
    /\ UNCHANGED <<locked, layers, validators, chain, threads>>

(* Reference.__getitem__ / Reference.retrieve: the leaf found by          *)
(* descending the data by str(kwargs[level]) for each level in order.     *)
(* The ReferenceError carries what its message names.                     *)
retrieve_bottom_up(ref, kwargs) ==
    IF \E i \in 1..Len(ref.levels) : ref.levels[i] \notin DOMAIN kwargs
    THEN [err |-> "KeyError"]
    ELSE LET args == [i \in 1..Len(ref.levels) |-> Str(kwargs[ref.levels[i]])]
             path == Reverse(args)
         IN IF path \in DOMAIN ref.data
            THEN [err |-> "none", val |-> ref.data[path]]
            ELSE [err |-> "ReferenceError", ref |-> ref.name, args |-> args]

retrieve(ref, kwargs) ==
    IF \E i \in 1..Len(ref.levels) : ref.levels[i] \notin DOMAIN kwargs
    THEN [err |-> "KeyError"]
    ELSE LET args == [i \in 1..Len(ref.levels) |-> Str(kwargs[ref.levels[i]])]
         IN IF args \in DOMAIN ref.data
            THEN [err |-> "none", val |-> ref.data[args]]
            ELSE [err |-> "ReferenceError", ref |-> ref.name, args |-> args]

(* reference.retrieve( **kwargs) on a reference of the model *)
Retrieve(i, kwargs) ==
    /\ i <= Len(refs)
    /\ op' = [name |-> "retrieve", ref |-> refs[i], kwargs |-> kwargs]
    /\ out' = retrieve(refs[i], kwargs)
    /\ UNCHANGED <<locked, layers, validators, refs, references, chain, threads>>

(***************************************************************************)
(* Reference queries (the refs= argument of a registrar): a list of        *)
(* entries, one per reference name, each a list of level / values pairs.   *)
(***************************************************************************)
query_names(data) == {data[i].ref : i \in 1..Len(data)}

(* ReferenceCollection._validate_query: TRUE when it raises ValueError. *)
validate_query_fails(data) == \E n \in query_names(data) : n \notin reference_names

(* The single-valued queries of one reference entry. *)
explode_entry(e) ==
    LET p == product([k \in 1..Len(e.q) |-> e.q[k].values])
    IN [n \in 1..Len(p) |->
           [l \in {e.q[k].level : k \in 1..Len(e.q)} |->
               p[n][CHOOSE k \in 1..Len(e.q) : e.q[k].level = l]]]

(* ReferenceCollection._explode_multireference: all_data *)
explode_data(data) ==
    LET P == product([r \in 1..Len(data) |-> explode_entry(data[r])])
    IN [n \in 1..Len(P) |->
           [name \in query_names(data) |->
               P[n][CHOOSE r \in 1..Len(data) : data[r].ref = name]]]

(* The list of str(level value) taken from one combination, walking the   *)
(* collection and each reference's levels in order.                       *)
suffix_parts(sub_data) ==
    Concat([i \in 1..Len(references) |->
        IF references[i].name \in DOMAIN sub_data
        THEN LET pairs == sub_data[references[i].name]
                 lv == SelectSeq(references[i].levels,
                                 LAMBDA l : l \in DOMAIN pairs)
             IN [j \in 1..Len(lv) |-> Str(pairs[lv[j]])]
        ELSE <<>>])

suffix_of(sub_data) == "_" \o Join(suffix_parts(sub_data), "_")

(* ReferenceCollection._explode_multireference: suffixes *)
explode_suffixes(data) ==
    LET all_data == explode_data(data)
    IN [n \in 1..Len(all_data) |-> suffix_of(all_data[n])]

(* The query as passed without explode_refs: every level has one value. *)
single_data(data) == explode_data(data)[1]

(* ReferenceCollection._create_callbacks: one ReferenceCallback per       *)
(* requested reference, listed in the order of the collection.            *)
create_callbacks_reversed(sub_data) ==
    LET sel == Reverse(SelectSeq(references, LAMBDA r : r.name \in DOMAIN sub_data))
    IN [i \in 1..Len(sel) |->
           [target |-> sel[i], data_kwargs |-> sub_data[sel[i].name]]]

create_callbacks(sub_data) ==
    LET sel == SelectSeq(references, LAMBDA r : r.name \in DOMAIN sub_data)
    IN [i \in 1..Len(sel) |->
           [target |-> sel[i], data_kwargs |-> sub_data[sel[i].name]]]

(***************************************************************************)
(* Elements.  A user function is known by its __name__ and its declared    *)
(* parameters, and comes with the comp= argument of its registrar; an      *)
(* element wraps it with a kind, a suffix and callbacks.                   *)
(***************************************************************************)
Element(kind, func, callbacks, suffix) ==
    [name |-> func.fname \o suffix, fname |-> func.fname, suffix |-> suffix,
     kind |-> kind, kwargs |-> func.kwargs, comp |-> func.comp,
     callbacks |-> callbacks]

(* Layer.unsorted: the elements of a layer, kind after kind. *)
unsorted(layer) == Concat([i \in 1..Len(Kinds) |-> layer.elements[Kinds[i]]])

(* Layer.element_names *)
layer_element_names(layer) == {e.name : e \in Range(unsorted(layer))}

(* All elements of all layers, one entry per registration. *)
registered == Concat([i \in 1..num_layers |-> unsorted(layers[i])])

(* LayerCollection.element_names *)
element_names == {e.name : e \in Range(registered)}

(* Layer.add_element: append to the list of the element's own kind. *)
layer_add_element(layer, obj) ==
    [layer EXCEPT !.elements[obj.kind] = Append(@, obj)]

RECURSIVE layer_add_all(_, _)
layer_add_all(layer, objs) ==
    IF objs = <<>> THEN layer
    ELSE layer_add_all(layer_add_element(layer, Head(objs)), Tail(objs))

(* LayerCollection.add_element: the error raised for the first element    *)
(* handed over, or "none".  self[layer] looks the name up among the        *)
(* elements of the collection, and what it finds has no add_element.       *)
add_element_error(layer) ==
    IF num_layers = 0 THEN "ValueError"
    ELSE IF layer = None THEN "none"
    ELSE IF layer.t = "str" /\ layer.s \in element_names THEN "AttributeError"
    ELSE "ValueError"

(* The elements one registrar call builds: one per exploded combination,  *)
(* or a single one with an empty suffix.                                   *)
built_elements(kind, func, data, explode_refs) ==
    IF explode_refs
    THEN LET all_data == explode_data(data)
             suffixes == explode_suffixes(data)
         IN [n \in 1..Len(all_data) |->
                Element(kind, func, create_callbacks(all_data[n]), suffixes[n])]
    ELSE << Element(kind, func, create_callbacks(single_data(data)), "") >>

(* Model._build_helpers.wrapper: add_<kind>(refs=, explode_refs=,         *)
(* layer=)(func)                                                           *)
AddElement(kind, func, data, explode_refs, layer) ==
    /\ op' = [name |-> "add_element", kind |-> kind, func |-> func,
              refs |-> data, explode_refs |-> explode_refs, layer |-> layer]
    /\ IF check_lock
       THEN /\ out' = Raise("ModelLockedError")
            /\ UNCHANGED layers
       ELSE IF validate_query_fails(data)
       THEN /\ out' = Raise("ValueError")
            /\ UNCHANGED layers
       ELSE LET objs == built_elements(kind, func, data, explode_refs) IN
            IF objs = <<>>
            THEN /\ out' = Ok
                 /\ UNCHANGED layers
            ELSE IF add_element_error(layer) # "none"
            THEN /\ out' = Raise(add_element_error(layer))
                 /\ UNCHANGED layers
            ELSE /\ Len(registered) + Len(objs) <= MaxElements
                 /\ layers' = [layers EXCEPT ![num_layers] =
                                   layer_add_all(@, objs)]
                 /\ out' = Ok
    /\ UNCHANGED <<locked, validators, refs, references, chain, threads>>

(***************************************************************************)
(* Validators.  A record (the **kwargs of a call) is a function from keys  *)
(* to values together with the order of its keys.                          *)
(*                                                                         *)
(* A bound (LimitManager) is absent, a constant, or a function of one      *)
(* other key (lambda k: k).  A condition is a (lo, hi, closed) tuple, a    *)
(* list of values, or a nested validator.                                  *)
(***************************************************************************)
NoBound == [t |-> "none", v |-> 0, k |-> ""]
Const(h) == [t |-> "const", v |-> h, k |-> ""]
Func(k) == [t |-> "func", v |-> 0, k |-> k]

Val(x) == [err |-> "none", val |-> x]

(* int(x) for a number in half units: truncation toward zero. *)
Trunc(h) == IF h >= 0 THEN (h \div 2) * 2 ELSE -(((-h) \div 2) * 2)

coerce(dtype, h) == IF dtype = "int" THEN Trunc(h) ELSE h

(* Validator.as_dtype *)
as_dtype(dtype, x) ==
    IF dtype = "none" THEN Val(x)
    ELSE IF x.t = "num" THEN Val(NumV(coerce(dtype, x.n)))
    ELSE Raise("TypeError")

(* LimitManager.keys *)
limit_keys(b) == IF b.t = "func" THEN {b.k} ELSE {}

(* LimitManager.__call__ *)
limit_call_uncoerced(b, dtype, kwargs) ==
    IF b.t = "none" THEN Val(None)
    ELSE IF b.t = "const" THEN Val(NumV(b.v))
    ELSE IF b.k \notin DOMAIN kwargs THEN Raise("KeyError")
    ELSE IF kwargs[b.k].t # "num" THEN Raise("ValueError")
    ELSE Val(NumV(kwargs[b.k].n))

limit_call(b, dtype, kwargs) ==
    IF b.t = "none" THEN Val(None)
    ELSE IF b.t = "const" THEN Val(NumV(coerce(dtype, b.v)))
    ELSE IF b.k \notin DOMAIN kwargs THEN Raise("KeyError")
    ELSE IF kwargs[b.k].t # "num" THEN Raise("ValueError")
    ELSE Val(NumV(coerce(dtype, kwargs[b.k].n)))

(* Validator.kwargs: the key, the condition keys (nested ones included)   *)
(* and the keys of functional bounds.                                      *)
RECURSIVE validator_kwargs(_)
validator_kwargs(v) ==
    {v.key}
    \cup {v.conditions[i].key : i \in 1..Len(v.conditions)}
    \cup UNION {IF v.conditions[i].t = "validator"
                THEN validator_kwargs(v.conditions[i].v) ELSE {} :
                i \in 1..Len(v.conditions)}
    \cup (IF v.cls = "Limits" THEN limit_keys(v.vmin) \cup limit_keys(v.vmax)
          ELSE {})

RECURSIVE sum_keys(_, _)
sum_keys(keys, kwargs) ==
    IF keys = <<>> THEN 0 ELSE kwargs[Head(keys)].n + sum_keys(Tail(keys), kwargs)

(* Validator.check_limits, from the float() conversions on.  A failing    *)
(* subtract / add lookup reaches a raise statement whose message names an  *)
(* undefined variable.                                                     *)
check_limits(v, x, vmin, vmax, closed, kwargs) ==
    LET shift == IF v.cls = "Limits" THEN v.subtract \o v.add ELSE <<>>
        sub == IF v.cls = "Limits" THEN v.subtract ELSE <<>>
        add == IF v.cls = "Limits" THEN v.add ELSE <<>>
    IN IF vmin.t # "num" \/ vmax.t # "num" \/ x.t # "num" THEN Raise("TypeError")
       ELSE IF \E i \in 1..Len(shift) :
                  shift[i] \notin DOMAIN kwargs \/ kwargs[shift[i]].t # "num"
       THEN Raise("NameError")
       ELSE LET hi == vmax.n - sum_keys(sub, kwargs)
                lo == vmin.n + sum_keys(add, kwargs)
                left == IF closed \in {"left", "both"} THEN x.n >= lo ELSE x.n > lo
                right == IF closed \in {"right", "both"} THEN x.n <= hi ELSE x.n < hi
            IN Val(left /\ right)

(* check_limits(x, **kwargs) as the enforcement policies call it: the     *)
(* bounds are the validator's own, evaluated for the record.  A record     *)
(* with a key "x" gives the parameter x a second value.                    *)
check_own_limits(v, x, kwargs) ==
    LET lo == limit_call(v.vmin, v.dtype, kwargs)
        hi == limit_call(v.vmax, v.dtype, kwargs)
    IN IF "x" \in DOMAIN kwargs THEN Raise("TypeError")
       ELSE IF lo.err # "none" THEN lo
       ELSE IF hi.err # "none" THEN hi
       ELSE check_limits(v, x, lo.val, hi.val, v.closed, kwargs)

(* Validator.check_values *)
check_values(x, values) == x \in values

(* The exceptions an `except ValueError` clause catches. *)
ValueErrors == {"ValueError", "InvalidValueError", "ConditionError"}

(* min(max(x, vmin), vmax) on numbers; a missing bound cannot be compared. *)
clamp_low_only(x, vmin, vmax) ==
    IF vmin.t # "num" \/ vmax.t # "num" THEN Raise("TypeError")
    ELSE Val(IF vmin.n > x.n THEN vmin ELSE x)

clamp(x, vmin, vmax) ==
    IF vmin.t # "num" \/ vmax.t # "num" THEN Raise("TypeError")
    ELSE LET m == IF vmin.n > x.n THEN vmin ELSE x
         IN Val(IF vmax.n < m.n THEN vmax ELSE m)

RECURSIVE validate(_, _, _)
RECURSIVE conditions_from(_, _, _)

(* Validator.check_conditions, from the i-th condition on. *)
conditions_from(v, kwargs, i) ==
    IF i > Len(v.conditions) THEN Val(TRUE)
    ELSE LET c == v.conditions[i] IN
         IF c.t = "validator"
         THEN LET r == validate(c.v, "pass", kwargs) IN
              IF r.err \in ValueErrors THEN Val(FALSE)
              ELSE IF r.err # "none" THEN r
              ELSE conditions_from(v, kwargs, i + 1)
         ELSE IF c.t = "tuple"
         THEN LET r == check_limits(v, kwargs[c.key], NumV(c.lo), NumV(c.hi),
                                    c.closed, <<>>) IN
              IF r.err # "none" THEN r
              ELSE IF ~r.val THEN Val(FALSE)
              ELSE conditions_from(v, kwargs, i + 1)
         ELSE IF ~check_values(kwargs[c.key], c.values) THEN Val(FALSE)
              ELSE conditions_from(v, kwargs, i + 1)

check_conditions(v, kwargs) == conditions_from(v, kwargs, 1)

(* The enforcement part of Limits.validate (conditions met). *)
limits_enforce(v, kwargs) ==
    LET x == kwargs[v.key]
        vmin == limit_call(v.vmin, v.dtype, kwargs)
        vmax == limit_call(v.vmax, v.dtype, kwargs)
        cx == as_dtype(v.dtype, x)
    IN IF vmin.err # "none" THEN vmin
       ELSE IF vmax.err # "none" THEN vmax
       ELSE IF v.enforce = "none" THEN Val(x)
       ELSE IF cx.err # "none" THEN cx
       ELSE IF v.enforce = "type" THEN cx
       ELSE IF v.enforce = "snap" THEN clamp(cx.val, vmin.val, vmax.val)
       ELSE LET ok == check_own_limits(v, cx.val, kwargs) IN
            IF ok.err # "none" THEN ok
            ELSE IF ok.val \/ v.enforce = "warn" THEN cx
            ELSE IF v.enforce = "default" THEN Val(v.default)
            ELSE Raise("InvalidValueError")

(* The enforcement part of Values.validate (conditions met). *)
values_enforce_strictly(v, kwargs) ==
    LET x == kwargs[v.key]
        cx == as_dtype(v.dtype, x)
    IN IF v.enforce = "none" THEN Val(x)
       ELSE IF cx.err # "none" THEN cx
       ELSE IF v.enforce = "type" THEN cx
       ELSE IF v.enforce \notin {"default", "strict"} THEN Val(None)
       ELSE IF check_values(cx.val, v.values) THEN cx
       ELSE Raise("InvalidValueError")

values_enforce(v, kwargs) ==
    LET x == kwargs[v.key]
        cx == as_dtype(v.dtype, x)
    IN IF v.enforce = "none" THEN Val(x)
       ELSE IF cx.err # "none" THEN cx
       ELSE IF v.enforce = "type" THEN cx
       ELSE IF v.enforce \notin {"default", "strict"} THEN Val(None)
       ELSE IF check_values(cx.val, v.values) THEN cx
       ELSE IF v.enforce = "default" THEN Val(v.default)
       ELSE Raise("InvalidValueError")

(* The error a validator raises when keys it needs are absent. *)
missing_error(v) == IF v.cls = "Limits" THEN "ValidationError" ELSE "KeyError"

(* Limits.validate / Values.validate *)
validate_enforcing_unmet(v, conditions, kwargs) ==
    IF v.key \notin DOMAIN kwargs THEN Raise("KeyError")
    ELSE IF ~(validator_kwargs(v) \subseteq DOMAIN kwargs)
    THEN Raise(missing_error(v))
    ELSE LET met == check_conditions(v, kwargs) IN
         IF met.err # "none" THEN met
         ELSE IF ~met.val /\ conditions # "pass"
         THEN Raise("ConditionError")
         ELSE IF v.cls = "Limits" THEN limits_enforce(v, kwargs)
         ELSE values_enforce(v, kwargs)

validate(v, conditions, kwargs) ==
    IF v.key \notin DOMAIN kwargs THEN Raise("KeyError")
    ELSE IF ~(validator_kwargs(v) \subseteq DOMAIN kwargs)
    THEN Raise(missing_error(v))
    ELSE LET met == check_conditions(v, kwargs) IN
         IF met.err # "none" THEN met
         ELSE IF ~met.val
         THEN (IF conditions = "pass" THEN Val(kwargs[v.key])
               ELSE Raise("ConditionError"))
         ELSE IF v.cls = "Limits" THEN limits_enforce(v, kwargs)
         ELSE values_enforce(v, kwargs)

(* Constructors of validator records. *)
Limits(key, vmin, vmax, closed, dtype, enforce, conditions) ==
    [cls |-> "Limits", key |-> key, vmin |-> vmin, vmax |-> vmax,
     closed |-> closed, dtype |-> dtype, enforce |-> enforce,
     default |-> None, subtract |-> <<>>, add |-> <<>>, values |-> {},
     conditions |-> conditions]

Values(key, values, dtype, default, enforce, conditions) ==
    [cls |-> "Values", key |-> key, vmin |-> NoBound, vmax |-> NoBound,
     closed |-> "both", dtype |-> dtype, enforce |-> enforce,
     default |-> default, subtract |-> <<>>, add |-> <<>>, values |-> values,
     conditions |-> conditions]

ListCond(key, values) == [t |-> "list", key |-> key, values |-> values]
TupleCond(key, lo, hi, closed) ==
    [t |-> "tuple", key |-> key, lo |-> lo, hi |-> hi, closed |-> closed]

(***************************************************************************)
(* Model.add_validator: Model.validators maps a key to the list of its     *)
(* validators, in registration order; here the list of all validators.     *)
(***************************************************************************)
validator_list_reversed(key) ==
    Reverse(SelectSeq(validators, LAMBDA v : v.key = key))
validator_list(key) == SelectSeq(validators, LAMBDA v : v.key = key)

AddValidator(obj) ==
    /\ op' = [name |-> "add_validator", arg |-> obj]
    /\ IF check_lock
       THEN /\ out' = Raise("ModelLockedError")
            /\ UNCHANGED validators
       ELSE /\ Len(validators) < MaxValidators
            /\ validators' = Append(validators, obj)
            /\ out' = Ok
    /\ UNCHANGED <<locked, layers, refs, references, chain, threads>>

(***************************************************************************)
(* Model.validate.  The record is walked in the order of its keys; each    *)
(* validator of a key is applied to the record as validated so far, once   *)
(* with conditions='pass' and once more with conditions='raise', whose     *)
(* errors are dropped.  A KeyError ends the key's validators and puts the  *)
(* supplied value back.                                                    *)
(***************************************************************************)
RECURSIVE apply_validators(_, _, _, _)
apply_validators(vlist, validated, key, arg) ==
    IF vlist = <<>> THEN Val(validated)
    ELSE LET r1 == validate(Head(vlist), "pass", validated) IN
         IF r1.err = "KeyError" THEN Val([validated EXCEPT ![key] = arg])
         ELSE IF r1.err # "none" THEN r1
         ELSE LET s1 == [validated EXCEPT ![key] = r1.val]
                  r2 == validate(Head(vlist), "raise", s1)
                  s2 == IF r2.err = "none"
                        THEN [s1 EXCEPT ![key] = r2.val] ELSE s1
              IN apply_validators(Tail(vlist), s2, key, arg)

RECURSIVE validate_keys(_, _, _)
validate_keys(keys, kwargs, validated) ==
    IF keys = <<>> THEN Val(validated)
    ELSE LET key == Head(keys)
             r == apply_validators(validator_list(key), validated, key,
                                   kwargs[key])
         IN IF r.err # "none" THEN r
            ELSE validate_keys(Tail(keys), kwargs, r.val)

model_validate(keys, kwargs) == validate_keys(keys, kwargs, kwargs)

(* Model.validate, called with the record as keyword arguments *)
Validate(keys, kwargs) ==
    /\ op' = [name |-> "validate", keys |-> keys, kwargs |-> kwargs]
    /\ out' = model_validate(keys, kwargs)
    /\ UNCHANGED <<locked, layers, validators, refs, references, chain, threads>>

(* validator.validate(conditions=..., **kwargs) on a registered validator *)
ValidatorValidate(i, conditions, kwargs) ==
    /\ i <= Len(validators)
    /\ op' = [name |-> "validator.validate", v |-> validators[i],
              conditions |-> conditions, kwargs |-> kwargs]
    /\ out' = validate(validators[i], conditions, kwargs)
    /\ UNCHANGED <<locked, layers, validators, refs, references, chain, threads>>

(***************************************************************************)
(* Evaluation.                                                             *)
(***************************************************************************)
(* {**a, **b} *)
Overlay(a, b) ==
    [k \in (DOMAIN a) \cup (DOMAIN b) |-> IF k \in DOMAIN b THEN b[k] ELSE a[k]]

RECURSIVE SumOver(_, _)
SumOver(keys, kwargs) ==
    IF keys = {} THEN 0
    ELSE LET k == CHOOSE k \in keys : TRUE
         IN kwargs[k].n + SumOver(keys \ {k}, kwargs)

(* ReferenceCallback.__call__: target.retrieve( **kwargs, **data_kwargs);  *)
(* a key given twice is a TypeError of the call itself.                    *)
callback_call(cb, kwargs) ==
    IF (DOMAIN kwargs) \cap (DOMAIN cb.data_kwargs) # {} THEN Raise("TypeError")
    ELSE retrieve(cb.target, Overlay(kwargs, cb.data_kwargs))

(* FuncOperator.__call__, the callbacks: each retrieved leaf mapping is   *)
(* merged over the keyword arguments gathered so far.                      *)
RECURSIVE run_callbacks(_, _)
run_callbacks(cbs, all_kwargs) ==
    IF cbs = <<>> THEN Val(all_kwargs)
    ELSE LET r == callback_call(Head(cbs), all_kwargs) IN
         IF r.err # "none" THEN r
         ELSE IF Head(cbs).target.leaf # "mapping" THEN Raise("TypeError")
         ELSE run_callbacks(Tail(cbs), Overlay(all_kwargs, r.val))

(* The wrapped function: one plus the sum of its declared parameters,     *)
(* which default to None; arithmetic on a missing or non-numeric one is a  *)
(* TypeError, reported as the element's ValueError.                        *)
func_call(e, all_kwargs) ==
    IF \E k \in e.kwargs : k \notin DOMAIN all_kwargs \/ all_kwargs[k].t # "num"
    THEN Raise("ValueError")
    ELSE Val(NumV(2 + SumOver(e.kwargs, all_kwargs)))

(* FuncOperator.__call__ *)
element_call(e, kwargs) ==
    LET r == run_callbacks(e.callbacks, kwargs) IN
    IF r.err # "none" THEN r ELSE func_call(e, r.val)

(* The keyword arguments Layer.evaluate hands to each element: those it   *)
(* was called with, whatever the layer has computed so far.                *)
layer_call_kwargs_sequential(kwargs, evaluated) == Overlay(kwargs, evaluated)
layer_call_kwargs(kwargs, evaluated) == kwargs

(* Layer.evaluate: {element.name: element( **kwargs) for element in        *)
(* self.unsorted}; `calls` logs each call made.                            *)
RECURSIVE layer_evaluate(_, _, _, _, _)
layer_evaluate(elems, i, kwargs, evaluated, calls) ==
    IF elems = <<>> THEN [err |-> "none", val |-> evaluated, calls |-> calls]
    ELSE LET e == Head(elems)
             ns == layer_call_kwargs(kwargs, evaluated)
             r == element_call(e, ns)
             log == Append(calls, [name |-> e.name, layer |-> i,
                                   kwargs |-> ns, res |-> r])
         IN IF r.err # "none" THEN [err |-> r.err, calls |-> log]
            ELSE layer_evaluate(Tail(elems), i, kwargs,
                                Overlay(evaluated, (e.name :> r.val)), log)

(* LayerCollection.evaluate *)
RECURSIVE evaluate_from(_, _, _)
evaluate_from(i, evaluated, calls) ==
    IF i > num_layers THEN [err |-> "none", val |-> evaluated, calls |-> calls]
    ELSE LET r == layer_evaluate(unsorted(layers[i]), i, evaluated, <<>>, calls)
         IN IF r.err # "none" THEN r
            ELSE evaluate_from(i + 1, Overlay(evaluated, r.val), r.calls)

evaluate(kwargs) == evaluate_from(1, kwargs, <<>>)

(* LayerCollection.evaluate, called with the record as keyword arguments *)
Evaluate(kwargs) ==
    /\ op' = [name |-> "evaluate", kwargs |-> kwargs]
    /\ out' = evaluate(kwargs)
    /\ UNCHANGED <<locked, layers, validators, refs, references, chain, threads>>

(***************************************************************************)
(* ResOperator: a float carrying the element that produced it.  Values are *)
(* exact rationals <<numerator, denominator>> in lowest terms.             *)
(***************************************************************************)
RECURSIVE GCD(_, _)
GCD(a, b) == IF b = 0 THEN a ELSE GCD(b, a % b)

Abs(a) == IF a < 0 THEN -a ELSE a

Rat(n, d) ==
    LET g == GCD(Abs(n), Abs(d))
        sgn == IF d < 0 THEN -1 ELSE 1
    IN <<sgn * (n \div g), sgn * (d \div g)>>

RatMul(a, b) ==
    LET g1 == GCD(Abs(a[1]), b[2])
        g2 == GCD(Abs(b[1]), a[2])
    IN Rat((a[1] \div g1) * (b[1] \div g2), (a[2] \div g2) * (b[2] \div g1))

(* ResOperator.__init__ *)
ResOperator(value, parent) == [value |-> value, parent |-> parent]

(* ResOperator.comp *)
res_comp(res) == res.parent.comp

(* ResOperator.modify *)
modify(res, value) == ResOperator(value, res.parent)

(* refs[refs.index(ref)] for a reference given by its name *)
find_ref(name) ==
    LET found == SelectSeq(refs, LAMBDA r : r.name = name)
    IN IF found = <<>> THEN Raise("ValueError") ELSE Val(Head(found))

(* ResOperator.convert *)
convert(res, refname, comp) ==
    LET ref == find_ref(refname) IN
    IF ref.err # "none" THEN ref
    ELSE LET fr == retrieve(ref.val, res_comp(res))
             to == retrieve(ref.val, comp)
         IN IF fr.err # "none" \/ to.err # "none" THEN Raise("ValueError")
            ELSE IF ref.val.leaf # "number" THEN Raise("TypeError")
            ELSE IF fr.val.n = 0 THEN Raise("ZeroDivisionError")
            ELSE Val(modify(res, RatMul(res.value, Rat(to.val.n, fr.val.n))))

(* The i-th registered element is called and its ResOperator kept: the    *)
(* head of a chain of conversions.                                         *)
ElementCall(i, kwargs) ==
    /\ i <= Len(registered)
    /\ op' = [name |-> "element", e |-> registered[i], kwargs |-> kwargs]
    /\ LET e == registered[i]
           r == element_call(e, kwargs) IN
       IF r.err # "none"
       THEN /\ out' = r
            /\ chain' = <<>>
       ELSE /\ out' = Ok
            /\ chain' = << [res |-> ResOperator(Rat(r.val.n, 2), e),
                            ref |-> "", comp |-> <<>>] >>
    /\ UNCHANGED <<locked, layers, validators, refs, references, threads>>

(* result.convert(ref, comp) on the last result of the chain *)
Convert(refname, comp) ==
    /\ chain # <<>>
    /\ op' = [name |-> "convert", ref |-> refname, comp |-> comp]
    /\ LET r == convert(chain[Len(chain)].res, refname, comp) IN
       IF r.err # "none"
       THEN /\ out' = r
            /\ UNCHANGED chain
       ELSE /\ Len(chain) < MaxChain
            /\ out' = Ok
            /\ chain' = Append(chain, [res |-> r.val, ref |-> refname,
                                       comp |-> comp])
    /\ UNCHANGED <<locked, layers, validators, refs, references, threads>>

(***************************************************************************)
(* The lock gate and the registration calls.                               *)
(***************************************************************************)
FuncF == [fname |-> "f", kwargs |-> {"x"}, comp |-> <<>>]
FuncG == [fname |-> "g", kwargs |-> {"f"}, comp |-> <<>>]

NoRefs == <<>>
QueryS == << [ref |-> "s", q |-> <<>>] >>

ValidatorX == Limits("x", Const(0), Const(4), "both", "float", "snap", <<>>)

(* The names add_layer is called with: none, a string, an index. *)
LayerNames == {None, StrV("a"), IntV(0)}

Next ==
    \/ Lock
    \/ Unlock
    \/ \E name \in LayerNames : AddLayer(name)
    \/ \E obj \in {RefS} : AddReference(obj)
    \/ \E obj \in {ValidatorX} : AddValidator(obj)
    \/ \E kind \in {"AF", "Result"} :
           AddElement(kind, FuncF, NoRefs, FALSE, None)

Spec == Init /\ [][Next]_vars

(***************************************************************************)
(* Exploded registration: one function, one element per combination of     *)
(* the level values of its reference query.                                *)
(***************************************************************************)
FuncA == [fname |-> "af", kwargs |-> {"a"}, comp |-> <<>>]

L1Values ==
    { <<StrV("mv"), StrV("sv")>>, <<StrV("a"), StrV("a_b")>>,
      <<IntV(1), StrV("1")>> }
L2Values ==
    { <<StrV("kabc"), StrV("o")>>, <<StrV("b_c"), StrV("c")>>, <<StrV("o")>> }

QueryR(v1, v2) ==
    << [ref |-> "r", q |-> << [level |-> "l1", values |-> v1],
                              [level |-> "l2", values |-> v2] >>] >>

ExplodeQueries ==
    {QueryR(v1, v2) : v1 \in L1Values, v2 \in L2Values}
    \cup {QueryR(<<StrV("mv"), StrV("sv")>>, <<StrV("kabc"), StrV("o")>>)
          \o QueryS}

NextExplode ==
    \/ \E obj \in {RefR, RefS} : AddReference(obj)
    \/ AddLayer(None)
    \/ \E data \in ExplodeQueries : AddElement("AF", FuncA, data, TRUE, None)

SpecExplode == Init /\ [][NextExplode]_vars

(***************************************************************************)
(* Conversion of results between compositions.                             *)
(***************************************************************************)
(* A reference of numbers with one level, as a severity distribution. *)
RefD ==
    [name |-> "d", levels |-> <<"severity">>, keys |-> <<>>, leaf |-> "number",
     data |-> (<<"kabco">> :> NumV(4)) @@ (<<"kabc">> :> NumV(3))
              @@ (<<"z">> :> NumV(0))]

Comp(sev) == [severity |-> StrV(sev)]

CompPool == {Comp("kabco"), Comp("kabc"), Comp("z")}

FuncR1 == [fname |-> "r1", kwargs |-> {"x"}, comp |-> Comp("kabco")]

ConvertInputs == {[x |-> NumV(h)] : h \in {0, 3}}

NextConvert ==
    \/ \E obj \in {RefD} : AddReference(obj)
    \/ AddLayer(None)
    \/ \E func \in {FuncR1} :
           AddElement("Result", func, NoRefs, FALSE, None)
    \/ \E i \in 1..MaxElements, kwargs \in ConvertInputs :
           ElementCall(i, kwargs)
    \/ \E refname \in {"d", "s"}, comp \in CompPool : Convert(refname, comp)

SpecConvert == Init /\ [][NextConvert]_vars

(***************************************************************************)
(* Layered evaluation.                                                     *)
(***************************************************************************)
NoKwargs == <<>>

EvalInputs ==
    {NoKwargs, [x |-> NumV(1)], [x |-> NumV(2), f |-> NumV(5)]}

NextEval ==
    \/ AddLayer(None)
    \/ \E kind \in {"AF", "Result"}, func \in {FuncF, FuncG} :
           AddElement(kind, func, NoRefs, FALSE, None)
    \/ \E kwargs \in EvalInputs : Evaluate(kwargs)

SpecEval == Init /\ [][NextEval]_vars

(***************************************************************************)
(* Validation of records.  Keys: w, a width, and d, a distance whose upper *)
(* limit is the width.                                                     *)
(***************************************************************************)
LimitsDSnap == Limits("d", Const(3), Func("w"), "both", "float", "snap", <<>>)

LimitsDInt ==
    Limits("d", Const(1), Const(5), "both", "int", "snap",
           <<ListCond("w", {NumV(7)})>>)

LimitsWSnap == Limits("w", Const(2), Const(4), "both", "int", "snap", <<>>)

ValuesD ==
    Values("d", {NumV(2), NumV(4)}, "float", NumV(2), "default",
           <<ListCond("w", {NumV(4), NumV(7)})>>)

LimitsDStrict ==
    Limits("d", Const(0), Const(6), "both", "float", "strict",
           <<TupleCond("w", 0, 4, "both")>>)

ValidatorPool == {LimitsDSnap, LimitsDInt, LimitsWSnap, ValuesD, LimitsDStrict}

RecordOf(keys, w, d) ==
    [keys |-> keys,
     kwargs |-> [k \in Range(keys) |-> IF k = "w" THEN NumV(w) ELSE NumV(d)]]

Records ==
    {RecordOf(keys, w, d) :
        keys \in {<<"w", "d">>, <<"d", "w">>, <<"d">>},
        w \in {1, 7}, d \in {-1, 3, 9}}

NextValidate ==
    \/ \E obj \in ValidatorPool : AddValidator(obj)
    \/ \E rec \in Records : Validate(rec.keys, rec.kwargs)
    \/ \E i \in 1..MaxValidators, conditions \in {"pass", "raise"},
          rec \in Records :
           ValidatorValidate(i, conditions, rec.kwargs)

SpecValidate == Init /\ [][NextValidate]_vars

(***************************************************************************)
(* Properties of the lock gate and of registration.                        *)
(***************************************************************************)
MutatorOps == {"add_layer", "add_reference", "add_validator", "add_element"}

(* C1: a structural mutator called on a locked model raises               *)
(* ModelLockedError and leaves layers, elements, validators and both       *)
(* reference registries as they were.                                      *)
C1_LockedMutatorRejected ==
    [][(locked /\ op'.name \in MutatorOps) =>
          /\ out'.err = "ModelLockedError"
          /\ layers' = layers
          /\ validators' = validators
          /\ refs' = refs
          /\ references' = references]_vars

(* A populated model is locked and an element registration was refused. *)
C1_Witness ==
    /\ locked
    /\ op.name = "add_element"
    /\ out.err = "ModelLockedError"
    /\ registered # <<>>
    /\ validators # <<>>
    /\ refs # <<>>

(* C9: whatever add_layer calls were made, no two layers of the model     *)
(* carry the same name (a duplicate name is refused).                      *)
C9_LayerNamesDistinct ==
    \A i, j \in 1..num_layers : i # j => layers[i].name # layers[j].name

(* C10: whatever registrations were made, no two elements of the model    *)
(* carry the same name (a duplicate name is refused).                      *)
C10_ElementNamesUnique ==
    \A i, j \in 1..Len(registered) :
        i # j => registered[i].name # registered[j].name

(***************************************************************************)
(* Properties of exploded registration.                                    *)
(***************************************************************************)
(* The elements a successful registrar step appended to the active layer. *)
Added(before, after, kind) ==
    SubSeq(after.elements[kind], Len(before.elements[kind]) + 1,
           Len(after.elements[kind]))

(* C6: a registrar with explode_refs=True and value lists V1, V2 for the  *)
(* two levels of reference r registers |V1|*|V2| elements in the active    *)
(* layer, named by the function name and pairwise distinct suffixes, the   *)
(* element of each combination retrieving that combination's leaf.         *)
C6_ExplodeRegistersProduct ==
    [][(op'.name = "add_element" /\ op'.explode_refs /\ out'.err = "none"
        /\ num_layers > 0) =>
          LET added == Added(layers[num_layers], layers'[num_layers], op'.kind)
              v1 == op'.refs[1].q[1].values
              v2 == op'.refs[1].q[2].values
          IN /\ Len(added) = Len(v1) * Len(v2)
             /\ \A i \in 1..Len(added) :
                   /\ added[i].fname = op'.func.fname
                   /\ added[i].name = op'.func.fname \o added[i].suffix
                   /\ \E c \in 1..Len(added[i].callbacks) :
                         /\ added[i].callbacks[c].target.name = "r"
                         /\ callback_call(added[i].callbacks[c], <<>>) =
                               Val(RefR.data[<<Str(v1[((i - 1) \div Len(v2)) + 1]),
                                               Str(v2[((i - 1) % Len(v2)) + 1])>>])
             /\ \A i, j \in 1..Len(added) :
                   i # j => added[i].name # added[j].name]_vars

(***************************************************************************)
(* Properties of conversion.                                               *)
(***************************************************************************)
(* A chain r, r.convert(ref, comp_b), r.convert(ref, comp_b).convert(ref,  *)
(* comp_a) where comp_a is the composition of r and the reference is       *)
(* nonzero at both compositions.                                           *)
RoundTrip ==
    /\ Len(chain) = 3
    /\ chain[2].ref = chain[3].ref
    /\ chain[3].comp = res_comp(chain[1].res)
    /\ LET ref == find_ref(chain[2].ref).val
       IN /\ retrieve(ref, chain[3].comp).val.n # 0
          /\ retrieve(ref, chain[2].comp).val.n # 0

(* C5: r.convert(ref, comp_b).convert(ref, comp_a) has the same numeric    *)
(* value as r, for r of composition comp_a and a reference nonzero at      *)
(* comp_a and comp_b.                                                      *)
C5_ConvertRoundTrips ==
    RoundTrip => chain[3].res.value = chain[1].res.value

(***************************************************************************)
(* Properties of layered evaluation.                                       *)
(***************************************************************************)
(* The inputs overlaid with the outputs logged for the layers before i. *)
RECURSIVE OutputsBefore(_, _, _)
OutputsBefore(calls, i, acc) ==
    IF calls = <<>> THEN acc
    ELSE LET c == Head(calls)
         IN OutputsBefore(Tail(calls), i,
                IF c.layer < i /\ c.res.err = "none"
                THEN Overlay(acc, (c.name :> c.res.val))
                ELSE acc)

(* C2: evaluation visits the layers in declaration order, calls every     *)
(* element of layer i with exactly the inputs overlaid with the outputs of *)
(* the layers before i, and returns a namespace whose keys are the input   *)
(* keys together with the names of all elements.                           *)
C2_EvaluateLayered ==
    op.name = "evaluate" =>
        /\ \A j \in 1..Len(out.calls) :
              out.calls[j].kwargs =
                  OutputsBefore(out.calls, out.calls[j].layer, op.kwargs)
        /\ \A j, k \in 1..Len(out.calls) :
              j < k => out.calls[j].layer <= out.calls[k].layer
        /\ out.err = "none" =>
              /\ Len(out.calls) = Len(registered)
              /\ \A j \in 1..Len(out.calls) :
                    out.calls[j].name = registered[j].name
              /\ DOMAIN out.val = (DOMAIN op.kwargs) \cup element_names

(* An evaluation succeeded in which g of the second layer read the f that  *)
(* the first layer computed from x, next to a second element of its layer. *)
C2_Witness ==
    /\ op.name = "evaluate"
    /\ out.err = "none"
    /\ "f" \notin DOMAIN op.kwargs
    /\ \E j, k \in 1..Len(out.calls) :
          /\ j # k
          /\ out.calls[j].layer = 2
          /\ out.calls[k].layer = 2
          /\ out.calls[j].name = "g"
          /\ out.calls[j].res.val = NumV(2 + out.val["f"].n)
          /\ out.val["f"] = NumV(2 + op.kwargs["x"].n)

(***************************************************************************)
(* Properties of validators.                                               *)
(***************************************************************************)
(* A Limits validator with enforce='snap' and both limits was called on a  *)
(* record that holds all its keys, a number for its own, and meets its     *)
(* conditions.                                                             *)
SnapCall ==
    /\ op.name = "validator.validate"
    /\ op.v.cls = "Limits"
    /\ op.v.enforce = "snap"
    /\ op.v.vmin.t # "none"
    /\ op.v.vmax.t # "none"
    /\ validator_kwargs(op.v) \subseteq DOMAIN op.kwargs
    /\ op.kwargs[op.v.key].t = "num"
    /\ check_conditions(op.v, op.kwargs) = Val(TRUE)

(* int() and float() on half units, as the claims read "coerced to dtype". *)
AsType(dtype, h) ==
    IF dtype = "int" THEN (IF h >= 0 THEN h - (h % 2) ELSE h + ((-h) % 2)) ELSE h

(* The limit as given by the user, for the record the call was made with. *)
BoundFor(b) ==
    AsType(op.v.dtype, IF b.t = "const" THEN b.v ELSE op.kwargs[b.k].n)

(* The three cases of clamping x into [lo, hi]. *)
Snapped(x, lo, hi) ==
    /\ out.err = "none"
    /\ x < lo => out.val = NumV(lo)
    /\ x > hi => out.val = NumV(hi)
    /\ (lo <= x /\ x <= hi) => out.val = NumV(AsType(op.v.dtype, x))

C4_SnapIdempotent ==
    (SnapCall /\ out.err = "none") =>
        validate(op.v, op.conditions,
                 [op.kwargs EXCEPT ![op.v.key] = out.val]) = out

(* A snap validator changed a value, by coercion to int and by clamping. *)
C4_Witness ==
    /\ SnapCall
    /\ out.err = "none"
    /\ op.v.dtype = "int"
    /\ op.kwargs[op.v.key].n > BoundFor(op.v.vmax)
    /\ out.val # op.kwargs[op.v.key]
    /\ out.val.n # AsType("int", op.kwargs[op.v.key].n)

(***************************************************************************)
(* Properties of Model.validate.                                           *)
(***************************************************************************)
(* The validators registered for a key, in registration order. *)
RegisteredFor(key) == SelectSeq(validators, LAMBDA v : v.key = key)

(* Model.validate returned a validated record. *)
Validated == op.name = "validate" /\ out.err = "none"

Position(key) == CHOOSE i \in 1..Len(op.keys) : op.keys[i] = key

(* The record as key sees it when every other key is already validated. *)
OthersValidated(key) == [out.val EXCEPT ![key] = op.kwargs[key]]

(* The record as key sees it when the keys before it are validated and the *)
(* keys after it are as supplied.                                          *)
EarlierValidated(key) ==
    [k \in DOMAIN op.kwargs |->
        IF Position(k) < Position(key) THEN out.val[k] ELSE op.kwargs[k]]

(* The value of key after its validators, in registration order, worked on *)
(* the record seen.                                                        *)
ThreadedValue(key, seen) ==
    apply_validators(RegisteredFor(key), seen, key, op.kwargs[key]).val[key]

(* C7: the validators of each key are applied in registration order to a   *)
(* record in which every other key has its validated value, whatever the   *)
(* order of the keys; keys without validators are returned unchanged.      *)
C7_ValidateThreadsAnyOrder ==
    Validated =>
        \A key \in DOMAIN op.kwargs :
            /\ out.val[key] = ThreadedValue(key, OthersValidated(key))
            /\ RegisteredFor(key) = <<>> => out.val[key] = op.kwargs[key]

(* C7, amended: the validators of each key are applied in registration     *)
(* order to a record in which the keys that precede it in the supplied     *)
(* record have their validated values and the keys that follow it their    *)
(* supplied ones; keys without validators are returned unchanged.          *)
C7_ValidateThreadsInRecordOrder ==
    Validated =>
        \A key \in DOMAIN op.kwargs :
            /\ out.val[key] = ThreadedValue(key, EarlierValidated(key))
            /\ RegisteredFor(key) = <<>> => out.val[key] = op.kwargs[key]

(* w came first and was snapped, and d was then snapped to the new w. *)
C7_Witness ==
    /\ Validated
    /\ op.keys = <<"w", "d">>
    /\ LimitsDSnap \in Range(validators)
    /\ out.val["w"] # op.kwargs["w"]
    /\ out.val["d"] = out.val["w"]
    /\ out.val["d"] # op.kwargs["d"]

(* The keys a validator of a supplied key needs and the record lacks. *)
MissingKeys ==
    UNION {validator_kwargs(v) \ DOMAIN op.kwargs :
             v \in {w \in Range(validators) : w.key \in DOMAIN op.kwargs}}

(* C8: Model.validate raises when a validator of a supplied key needs a    *)
(* key the record lacks, for Values as for Limits validators; the record   *)
(* is not returned.                                                        *)
C8_MissingKeyRaises ==
    (op.name = "validate" /\ MissingKeys # {}) => out.err # "none"

(***************************************************************************)
(* Properties of the reference registries.                                 *)
(***************************************************************************)
(* C11: add_reference with a name already registered raises and leaves     *)
(* Model.refs and Model.references unchanged; the two registries hold the  *)
(* same references, one per name.                                          *)
C11_DuplicateReferenceRejected ==
    [][(op'.name = "add_reference" /\ ~locked) =>
          /\ op'.arg.name \in reference_names =>
                (out'.err # "none" /\ UNCHANGED <<refs, references>>)
          /\ refs' = references'
          /\ \A i, j \in 1..Len(refs') :
                refs'[i].name = refs'[j].name => i = j]_vars

(***************************************************************************)
(* Predictions.                                                            *)
(***************************************************************************)
(* The injective maps of 1..n: the orders in which a set of n objects can  *)
(* be iterated.                                                            *)
Orders(n) ==
    {p \in [1..n -> 1..n] : \A i, j \in 1..n : p[i] = p[j] => i = j}

(* set(elements): one element per name, the first one added. *)
RECURSIVE unique(_, _)
unique(elems, seen) ==
    IF elems = <<>> THEN <<>>
    ELSE IF Head(elems).name \in seen THEN unique(Tail(elems), seen)
    ELSE <<Head(elems)>> \o unique(Tail(elems), seen \cup {Head(elems).name})

(* LayerCollection.elements: list(set(elements)), in the order `order`. *)
collection_elements(order) ==
    LET u == unique(registered, {}) IN [i \in 1..Len(u) |-> u[order[i]]]

(* Prediction.res, as the list of its items. *)
prediction_res(data, order) ==
    LET sel == SelectSeq(collection_elements(order),
                         LAMBDA e : e.kind = "Result")
    IN [i \in 1..Len(sel) |-> [name |-> sel[i].name, val |-> data[sel[i].name]]]

(* Prediction.__init__: the evaluated data, or the error of the evaluation. *)
prediction_data(evaluated) ==
    IF evaluated.err # "none" THEN Raise(evaluated.err)
    ELSE Val(evaluated.val)

(* Model.predict_one after validation: the validated record is evaluated. *)
predict_validated(validated) ==
    IF validated.err # "none" THEN validated
    ELSE prediction_data(evaluate(validated.val))

(* Model.predict_one: the data of the Prediction. *)
predict_one(keys, kwargs) == predict_validated(model_validate(keys, kwargs))

(* The results a caller of predict_one can see: the error, or the data     *)
(* with Prediction.res, the set of elements being iterated in any order.   *)
predictions(p) ==
    IF p.err # "none" THEN {p}
    ELSE {[err |-> "none", val |-> p.val, res |-> prediction_res(p.val, order)] :
            order \in Orders(Len(unique(registered, {})))}

(* Model.predict_one, and Prediction.res read from its result. *)
PredictOne(keys, kwargs) ==
    /\ op' = [name |-> "predict_one", keys |-> keys, kwargs |-> kwargs]
    /\ out' \in predictions(predict_one(keys, kwargs))
    /\ UNCHANGED <<locked, layers, validators, refs, references, chain, threads>>

(* The rows of Model.predict collected: the first error ends the call;     *)
(* with merge the Series of every Prediction's data, as one table.         *)
predict_rows(rows, merge) ==
    LET failed == {i \in 1..Len(rows) : rows[i].err # "none"}
        data == [i \in 1..Len(rows) |-> rows[i].val]
    IN IF failed # {}
       THEN Raise(rows[CHOOSE i \in failed : \A j \in failed : i <= j].err)
       ELSE IF merge
       THEN [err |-> "none", val |-> data,
             columns |-> UNION {DOMAIN data[i] : i \in 1..Len(rows)}]
       ELSE Val(data)

(* Model.predict on a DataFrame: predict_one on every row. *)
predict(keys, records, merge) ==
    predict_rows([i \in 1..Len(records) |-> predict_one(keys, records[i])],
                 merge)

(* Model.predict(obj, merge) for a DataFrame whose columns are `keys` *)
Predict(keys, records, merge) ==
    /\ op' = [name |-> "predict", keys |-> keys, records |-> records,
              merge |-> merge]
    /\ out' = predict(keys, records, merge)
    /\ UNCHANGED <<locked, layers, validators, refs, references, chain, threads>>

(* Inputs of predictions: records and tables with the one column x. *)
PredictInputs == {[x |-> NumV(1)], [x |-> NumV(5)]}

Tables ==
    {<<[x |-> NumV(5)]>>}
    \cup {t \in PredictInputs \X PredictInputs : t[1] # t[2]}

NextPredict ==
    \/ AddLayer(None)
    \/ \E e \in {<<"AF", FuncF>>, <<"Result", FuncF>>, <<"Result", FuncG>>} :
           AddElement(e[1], e[2], NoRefs, FALSE, None)
    \/ \E kwargs \in PredictInputs : PredictOne(<<"x">>, kwargs)
    \/ \E records \in Tables, merge \in BOOLEAN :
           Predict(<<"x">>, records, merge)

SpecPredict == Init /\ [][NextPredict]_vars

(***************************************************************************)
(* Properties of predictions.                                              *)
(***************************************************************************)
(* The Result-kind elements, in registration order. *)
ResultElements == SelectSeq(registered, LAMBDA e : e.kind = "Result")

(* C12: Prediction.res holds exactly the Result-kind elements of the       *)
(* model, each with its evaluated value, in element registration order.    *)
C12_ResInRegistrationOrder ==
    (op.name = "predict_one" /\ out.err = "none") =>
        out.res = [i \in 1..Len(ResultElements) |->
                      [name |-> ResultElements[i].name,
                       val |-> out.val[ResultElements[i].name]]]

(* C13: a batch prediction with merge=True has one row per record, the row *)
(* of a record being what predict_one gives for that record alone, and its *)
(* columns are exactly the names of the Result-kind elements.              *)
C13_BatchRowsAndResultColumns ==
    (op.name = "predict" /\ op.merge /\ out.err = "none") =>
        /\ Len(out.val) = Len(op.records)
        /\ \A i \in 1..Len(op.records) :
              Val(out.val[i]) = predict_one(op.keys, op.records[i])
        /\ out.columns = {e.name : e \in Range(ResultElements)}

(***************************************************************************)
(* The required inputs of a model.                                         *)
(***************************************************************************)
(* The keys in use, in the order sorted() gives them. *)
Alphabet == <<"a", "b", "d", "f", "w", "x">>

sorted(S) == SelectSeq(Alphabet, LAMBDA k : k \in S)

(* Layer.kwargs: the declared parameters of the layer's elements that are  *)
(* not Hidden, less the names of the layer's elements.                     *)
layer_kwargs_with_hidden(layer) ==
    UNION {e.kwargs : e \in Range(unsorted(layer))}
    \ layer_element_names(layer)

layer_kwargs(layer) ==
    UNION {e.kwargs : e \in {h \in Range(unsorted(layer)) : h.kind # "Hidden"}}
    \ layer_element_names(layer)

(* LayerCollection.kwargs_all *)
kwargs_all == UNION {layer_kwargs(layers[i]) : i \in 1..num_layers}

(* LayerCollection.kwargs *)
collection_kwargs == kwargs_all \ element_names

(* Model.ref_keys: the keys provided by all references of the model. *)
ref_keys == UNION {Range(refs[i].keys) : i \in 1..Len(refs)}

(* Model.kwargs *)
model_kwargs == sorted(collection_kwargs \ ref_keys)


(***************************************************************************)
(* Validator.random and Model.init_one.  With a seed, every call of        *)
(* random() builds the generator anew and so draws the same numbers: a     *)
(* draw is the number k / 2 that Random.random() returns and the position  *)
(* c that Random.choice() picks.  The limits in use differ by whole units, *)
(* so the drawn value is a number of half units.                           *)
(***************************************************************************)
MaxAttempts == 2

Draws == [k : {0, 1}, c : {0, 1}]

RECURSIVE SetToSeq(_)
SetToSeq(S) ==
    IF S = {} THEN <<>>
    ELSE LET x == CHOOSE y \in S : TRUE IN <<x>> \o SetToSeq(S \ {x})

(* Values.random *)
values_random(v, conditions, kwargs, draw) ==
    IF v.values = {} THEN Raise("IndexError")
    ELSE LET choices == SetToSeq(v.values)
             val == choices[(draw.c % Len(choices)) + 1]
         IN validate(v, conditions, Overlay(kwargs, (v.key :> val)))

(* Limits.random *)
limits_random(v, conditions, kwargs, draw) ==
    LET lo == limit_call(v.vmin, v.dtype, kwargs)
        hi == limit_call(v.vmax, v.dtype, kwargs)
    IN IF lo.err # "none" \/ hi.err # "none" THEN Raise("ValidationError")
       ELSE IF \/ \E i \in 1..Len(v.subtract) :
                      \/ v.subtract[i] \notin DOMAIN kwargs
                      \/ kwargs[v.subtract[i]].t # "num"
                      \/ hi.val.t # "num"
               \/ \E i \in 1..Len(v.add) :
                      \/ v.add[i] \notin DOMAIN kwargs
                      \/ kwargs[v.add[i]].t # "num"
                      \/ lo.val.t # "num"
       THEN Raise("ValidationError")
       ELSE IF lo.val.t # "num" \/ hi.val.t # "num" THEN Raise("TypeError")
       ELSE LET vmax == hi.val.n - sum_keys(v.subtract, kwargs)
                vmin == lo.val.n + sum_keys(v.add, kwargs)
                val == NumV(((draw.k * (vmax - vmin)) \div 2) + vmin)
            IN validate(v, conditions, Overlay(kwargs, (v.key :> val)))

random(v, conditions, kwargs, draw) ==
    IF v.cls = "Limits" THEN limits_random(v, conditions, kwargs, draw)
    ELSE values_random(v, conditions, kwargs, draw)

(* The exceptions init_one catches around validator.random. *)
InitCaught == {"KeyError", "ValidationError"} \cup ValueErrors

(* A record under construction: its keys in insertion order, its values. *)
EmptyRes == [keys |-> <<>>, kwargs |-> <<>>]

res_set(res, key, val) ==
    [keys |-> IF key \in DOMAIN res.kwargs THEN res.keys ELSE Append(res.keys, key),
     kwargs |-> Overlay(res.kwargs, (key :> val))]

(* for validator in validator_list: ...; `r` is what validator.random       *)
(* gave for the head of the list.                                          *)
RECURSIVE init_validators(_, _, _, _)
init_validators_after(vlist, res, kwarg, draw, r) ==
    IF r.err \in InitCaught
    THEN init_validators(Tail(vlist), res, kwarg, draw)
    ELSE IF r.err # "none" THEN r
    ELSE init_validators(Tail(vlist), res_set(res, kwarg, r.val), kwarg, draw)

init_validators(vlist, res, kwarg, draw) ==
    IF vlist = <<>> THEN Val(res)
    ELSE init_validators_after(vlist, res, kwarg, draw,
                               random(Head(vlist), "raise", res.kwargs, draw))

(* for kwarg in remaining: ...; `r` is the record after the head of the    *)
(* list, or the error raised on it.                                        *)
RECURSIVE init_remaining(_, _, _, _)
init_remaining_after(remaining, fill, draw, r) ==
    IF r.err # "none" THEN r
    ELSE init_remaining(Tail(remaining), r.val, fill, draw)

init_kwarg(kwarg, vlist, res, fill, draw) ==
    IF vlist = <<>> THEN Val(res_set(res, kwarg, fill))
    ELSE init_validators(vlist, res, kwarg, draw)

init_remaining(remaining, res, fill, draw) ==
    IF remaining = <<>> THEN Val(res)
    ELSE init_remaining_after(remaining, fill, draw,
                              init_kwarg(Head(remaining),
                                         validator_list(Head(remaining)),
                                         res, fill, draw))

(* for attempt in range(attempts): ...; return res.  The error carries    *)
(* the keys its message names and, beside them, the record as it stands    *)
(* when the error is raised.                                               *)
RECURSIVE init_attempts(_, _, _, _, _)
init_attempts_after(attempt, attempts, fill, draw, remaining, r) ==
    IF r.err # "none" THEN r
    ELSE IF Len(r.val.keys) = Len(model_kwargs) THEN r
    ELSE IF attempt < attempts - 1
    THEN init_attempts(attempt + 1, attempts, r.val, fill, draw)
    ELSE [err |-> "ValueError", remaining |-> remaining, res |-> r.val]

init_pass(attempt, attempts, res, fill, draw, remaining) ==
    init_attempts_after(attempt, attempts, fill, draw, remaining,
                        init_remaining(remaining, res, fill, draw))

init_attempts(attempt, attempts, res, fill, draw) ==
    IF attempt >= attempts THEN Val(res)
    ELSE init_pass(attempt, attempts, res, fill, draw,
                   SelectSeq(model_kwargs, LAMBDA k : k \notin DOMAIN res.kwargs))

init_one(fill, attempts, draw) == init_attempts(0, attempts, EmptyRes, fill, draw)

(* Model.init_one *)
InitOne(fill, attempts, draw) ==
    /\ op' = [name |-> "init_one", fill |-> fill, attempts |-> attempts,
              draw |-> draw]
    /\ out' = init_one(fill, attempts, draw)
    /\ UNCHANGED <<locked, layers, validators, refs, references, chain, threads>>


(***************************************************************************)
(* Initialisation: a model of one layer whose elements declare a, d and w, *)
(* validators for d and w, and init_one calls.                             *)
(***************************************************************************)
FuncH == [fname |-> "h", kwargs |-> {"d", "w"}, comp |-> <<>>]

LimitsWLow == Limits("w", Const(0), Const(4), "both", "float", "strict", <<>>)
LimitsWHigh == Limits("w", Const(4), Const(8), "both", "float", "strict", <<>>)
LimitsDW == Limits("d", Const(0), Func("w"), "both", "float", "snap", <<>>)
ValuesDW ==
    Values("d", {NumV(2), NumV(4)}, "float", None, "strict",
           <<ListCond("w", {NumV(0)})>>)

InitValidators == {LimitsWLow, LimitsWHigh, LimitsDW, ValuesDW}

(* Model.add_layer on a model without layers *)
AddFirstLayer == num_layers = 0 /\ AddLayer(None)

NextInit ==
    \/ AddFirstLayer
    \/ \E func \in {FuncH, FuncA} : AddElement("AF", func, NoRefs, FALSE, None)
    \/ \E obj \in InitValidators : AddValidator(obj)
    \/ \E attempts \in 0..MaxAttempts, draw \in Draws :
           InitOne(None, attempts, draw)

SpecInit == Init /\ [][NextInit]_vars

(* C14: init_one returns a record with a value for every key of            *)
(* Model.kwargs, or raises an error naming the keys still missing after    *)
(* the last pass; it never returns a partial record.                       *)
C14_InitOneAllOrError ==
    op.name = "init_one" =>
        \/ /\ out.err = "none"
           /\ DOMAIN out.val.kwargs = Range(model_kwargs)
        \/ /\ out.err = "ValueError"
           /\ Range(out.remaining) = Range(model_kwargs) \ DOMAIN out.res.kwargs

(* C15: the record init_one returns is accepted by Model.validate and      *)
(* comes back unchanged, also with several validators on one key.          *)
C15_InitOneFeasible ==
    (op.name = "init_one" /\ out.err = "none") =>
        model_validate(out.val.keys, out.val.kwargs) = Val(out.val.kwargs)


(***************************************************************************)
(* The parking validators of the usa_seg model, as its module registers    *)
(* them, and validations of records of the two parking keys.               *)
(***************************************************************************)
ParkingTypeStrict ==
    Values("parking_type",
           {StrV("parallel_res"), StrV("parallel_com"), StrV("angle_res"),
            StrV("angle_com")},
           "none", None, "strict", <<TupleCond("parking_prop", 0, 2, "right")>>)

ParkingTypeDefault ==
    Values("parking_type", {StrV("none")}, "none", StrV("none"), "default",
           <<TupleCond("parking_prop", 0, 0, "both")>>)

ParkingProp ==
    Limits("parking_prop", Const(0), Const(2), "both", "float", "strict", <<>>)

InitParking ==
    /\ locked = FALSE
    /\ layers = <<>>
    /\ validators = <<ParkingTypeStrict, ParkingTypeDefault, ParkingProp>>
    /\ refs = <<>>
    /\ references = <<>>
    /\ chain = <<>>
    /\ threads = [t \in Threads |-> Idle]
    /\ op = NoOp
    /\ out = Ok

ParkingProps == {NumV(0), NumV(1), NumV(2), NumV(3)}

ParkingTypes ==
    {StrV("angle_com"), StrV("parallel_res"), StrV("none"), StrV("other"), None}

(* The records: both keys in either order, or one key alone. *)
ParkingRecords ==
    {[keys |-> ks, kwargs |-> [parking_prop |-> p, parking_type |-> t]] :
        ks \in {<<"parking_prop", "parking_type">>,
                <<"parking_type", "parking_prop">>},
        p \in ParkingProps, t \in ParkingTypes}
    \cup {[keys |-> <<"parking_type">>, kwargs |-> [parking_type |-> t]] :
             t \in ParkingTypes}
    \cup {[keys |-> <<"parking_prop">>, kwargs |-> [parking_prop |-> p]] :
             p \in ParkingProps}

NextParking ==
    \/ \E r \in ParkingRecords : Validate(r.keys, r.kwargs)
    \/ \E i \in 1..3, conditions \in {"pass", "raise"}, r \in ParkingRecords :
           ValidatorValidate(i, conditions, r.kwargs)

SpecParking == InitParking /\ [][NextParking]_vars

NoParking == [parking_prop |-> NumV(0), parking_type |-> StrV("angle_com")]

(* C16: for the usa_seg validators of parking_type, validating a record    *)
(* with parking_prop = 0 and parking_type = 'angle_com' under              *)
(* conditions='pass' does not raise and yields parking_type = 'none': the  *)
(* strict validator is inert, its condition (0, 1] being unmet, and the    *)
(* enforce='default' validator conditioned on [0, 0] substitutes its       *)
(* default.                                                                *)
C16_ParkingDefaultSubstituted ==
    /\ (op.name = "validate" /\ op.kwargs = NoParking) =>
           /\ out.err = "none"
           /\ out.val.parking_type = StrV("none")
    /\ (op.name = "validator.validate" /\ op.conditions = "pass"
           /\ op.kwargs = NoParking) =>
           /\ op.v = ParkingTypeStrict => out = Val(StrV("angle_com"))
           /\ op.v = ParkingTypeDefault => out = Val(StrV("none"))

C16_Witness ==
    /\ op.name = "validate"
    /\ op.kwargs = NoParking
    /\ out.err = "none"
    /\ out.val.parking_type = StrV("none")


(***************************************************************************)
(* The rtl_seg model (HSM rural two-lane segments).  Quantities are exact  *)
(* rationals; math.exp and math.log are tables of their values to four     *)
(* decimals at the arguments in use.  The leaves of spf.json and           *)
(* calibration.json are inputs.                                            *)
(***************************************************************************)
R(i) == Rat(i, 1)
RatAdd(a, b) ==
    LET g == GCD(a[2], b[2])
    IN Rat(a[1] * (b[2] \div g) + b[1] * (a[2] \div g), (a[2] \div g) * b[2])
RatSub(a, b) == RatAdd(a, <<-b[1], b[2]>>)
RatDiv(a, b) == RatMul(a, Rat(b[2], b[1]))
RatLt(a, b) == a[1] * b[2] < b[1] * a[2]
RatMin(a, b) == IF RatLt(b, a) THEN b ELSE a
RatMax(a, b) == IF RatLt(a, b) THEN b ELSE a
RatAbs(a) == <<Abs(a[1]), a[2]>>

(* None where a number is expected *)
NoNumber == <<0, 0>>

(* math.exp *)
exp(x) ==
    CASE x = R(0) -> R(1)
      [] x = Rat(-312, 1000) -> Rat(7320, 10000)

(* math.log *)
log(x) ==
    CASE x = R(5000) -> Rat(85172, 10000)
      [] x = R(300) -> Rat(57038, 10000)

(* a + b * (aadt - 400), the interpolation of Tables 10-8 and 10-9 *)
interpolate(a, b, aadt) == RatAdd(a, RatMul(b, RatSub(aadt, R(400))))

(* the three AADT ranges of Tables 10-8 and 10-9 *)
by_aadt(aadt, low, high, a, b) ==
    IF RatLt(aadt, R(400)) THEN low
    ELSE IF RatLt(R(2000), aadt) THEN high
    ELSE interpolate(a, b, aadt)

(* (af - 1.0) * 0.574 + 1, Equations 10-11 and 10-12 *)
generalize(af) == RatAdd(RatMul(RatSub(af, R(1)), Rat(574, 1000)), R(1))

spf(aadt, length, a, b, cf) ==
    RatMul(RatMul(RatMul(RatMul(RatMul(RatMul(a, aadt), length), R(365)),
                         Rat(1, 1000000)), exp(b)), cf)

(* spf_kabco, with a, b and cf retrieved from the spf reference *)
spf_kabco(kw, leaf) == spf(kw.aadt, kw.length, leaf.a, leaf.b, leaf.cf)

af_lane_width(kw) ==
    LET af == IF RatLt(kw.lane_width, R(10))
              THEN by_aadt(kw.aadt, Rat(105, 100), Rat(150, 100),
                           Rat(105, 100), Rat(281, 1000000))
              ELSE IF RatLt(kw.lane_width, R(11))
              THEN by_aadt(kw.aadt, Rat(102, 100), Rat(130, 100),
                           Rat(102, 100), Rat(175, 1000000))
              ELSE IF RatLt(kw.lane_width, R(12))
              THEN by_aadt(kw.aadt, Rat(101, 100), Rat(105, 100),
                           Rat(101, 100), Rat(250, 10000000))
              ELSE R(1)
    IN generalize(af)

(* the shoulder type factor of Table 10-10, in hundredths above 1.00 *)
af_typ(shld_width, shld_type) ==
    LET row == IF RatLt(shld_width, R(1)) THEN <<0, 0, 0, 0>>
               ELSE IF RatLt(shld_width, R(2)) THEN <<0, 0, 1, 1>>
               ELSE IF RatLt(shld_width, R(3)) THEN <<0, 1, 2, 3>>
               ELSE IF RatLt(shld_width, R(4)) THEN <<0, 1, 2, 4>>
               ELSE IF RatLt(shld_width, R(6)) THEN <<0, 1, 3, 5>>
               ELSE IF RatLt(shld_width, R(8)) THEN <<0, 2, 4, 8>>
               ELSE <<0, 2, 6, 11>>
        col == CASE shld_type = "paved" -> 1
                 [] shld_type = "gravel" -> 2
                 [] shld_type = "composite" -> 3
                 [] shld_type = "turf" -> 4
    IN Rat(100 + row[col], 100)

(* the shoulder width factor of Table 10-9 *)
af_wth(shld_width, aadt) ==
    IF RatLt(shld_width, R(2))
    THEN by_aadt(aadt, Rat(110, 100), Rat(150, 100),
                 Rat(110, 100), Rat(250, 1000000))
    ELSE IF RatLt(shld_width, R(4))
    THEN by_aadt(aadt, Rat(107, 100), Rat(130, 100),
                 Rat(107, 100), Rat(143, 1000000))
    ELSE IF RatLt(shld_width, R(6))
    THEN by_aadt(aadt, Rat(102, 100), Rat(115, 100),
                 Rat(102, 100), Rat(8125, 100000000))
    ELSE IF RatLt(shld_width, R(8)) THEN R(1)
    ELSE by_aadt(aadt, Rat(98, 100), Rat(87, 100),
                 Rat(98, 100), Rat(-6875, 100000000))

af_shld(kw) ==
    generalize(RatMul(af_typ(kw.shld_width, kw.shld_type),
                      af_wth(kw.shld_width, kw.aadt)))

af_hor_curve(kw) ==
    IF kw.curve_length = R(0) /\ kw.curve_radius = R(0) THEN R(1)
    ELSE LET curve_length == RatMax(RatMin(kw.curve_length, kw.length),
                                    Rat(100, 5280))
             curve_radius == RatMax(kw.curve_radius, R(100))
             base == RatMul(Rat(155, 100), curve_length)
             af == RatDiv(RatSub(RatAdd(base, RatDiv(Rat(802, 10), curve_radius)),
                                 RatMul(Rat(12, 1000), kw.spiral_transition)),
                          base)
         IN RatMax(af, R(1))

af_se_var(kw) ==
    IF RatLt(kw.se_var, Rat(1, 100)) THEN R(1)
    ELSE IF ~RatLt(kw.se_var, Rat(2, 100))
    THEN RatAdd(Rat(106, 100), RatMul(R(3), RatSub(kw.se_var, Rat(2, 100))))
    ELSE RatAdd(R(1), RatMul(R(6), RatSub(kw.se_var, Rat(1, 100))))

af_grade(kw) ==
    LET grade == RatAbs(kw.grade) IN
    IF ~RatLt(R(3), grade) THEN R(1)
    ELSE IF ~RatLt(R(6), grade) THEN Rat(110, 100)
    ELSE Rat(116, 100)

af_dwy_density(kw) ==
    IF RatLt(kw.dwy_density, R(5)) THEN R(1)
    ELSE LET slope == RatSub(Rat(5, 100), RatMul(Rat(5, 1000), log(kw.aadt)))
         IN RatDiv(RatAdd(Rat(322, 1000), RatMul(kw.dwy_density, slope)),
                   RatAdd(Rat(322, 1000), RatMul(R(5), slope)))

af_rumble_cl(kw) == IF kw.rumble_cl = R(1) THEN Rat(94, 100) ELSE R(1)

af_passing_lanes(kw) ==
    CASE kw.passing_lanes = R(0) -> R(1)
      [] kw.passing_lanes = R(1) -> Rat(75, 100)
      [] kw.passing_lanes = R(2) -> Rat(65, 100)

af_twltl(kw) ==
    IF kw.twltl = R(0) THEN R(1)
    ELSE IF RatLt(kw.dwy_density, R(5)) THEN R(1)
    ELSE LET part == RatAdd(RatMul(Rat(47, 10000), kw.dwy_density),
                            RatMul(Rat(24, 10000),
                                   RatMul(kw.dwy_density, kw.dwy_density)))
             dwy_prop == RatDiv(part, RatAdd(Rat(1199, 1000), part))
         IN RatSub(R(1), RatMul(RatMul(Rat(7, 10), dwy_prop), Rat(5, 10)))

(* math.exp(-0.6869 + 0.0668 * rhr) / math.exp(-0.4865) *)
af_rhr(kw) ==
    LET table == <<Rat(8749, 10000), Rat(9354, 10000), R(1), Rat(10691, 10000),
                   Rat(11429, 10000), Rat(12219, 10000), Rat(13063, 10000)>>
    IN table[kw.rhr[1]]

af_lighting(kw) ==
    IF kw.lighting = R(1)
    THEN RatSub(R(1),
                RatMul(RatSub(RatSub(R(1), RatMul(Rat(72, 100), Rat(382, 1000))),
                              RatMul(Rat(83, 100), Rat(618, 1000))),
                       Rat(370, 1000)))
    ELSE R(1)

af_ase(kw) == IF kw.ase = R(1) THEN Rat(93, 100) ELSE R(1)

(* The adjustment factors of the first layer, in registration order. *)
AFNames ==
    <<"af_lane_width", "af_shld", "af_hor_curve", "af_se_var", "af_grade",
      "af_dwy_density", "af_rumble_cl", "af_passing_lanes", "af_twltl",
      "af_rhr", "af_lighting", "af_ase">>

RECURSIVE factor_product(_, _)
factor_product(names, kw) ==
    IF names = <<>> THEN R(1)
    ELSE RatMul(factor_product(SubSeq(names, 1, Len(names) - 1), kw),
                kw[names[Len(names)]])

af_total_without_shld(kw) ==
    factor_product(SelectSeq(AFNames, LAMBDA n : n # "af_shld"), kw)

af_total(kw) == factor_product(AFNames, kw)

(* cf_total, with cf retrieved from the calibration reference *)
cf_total(kw, leaf) == leaf.cf

pred_kabco(kw) ==
    RatMul(RatMul(RatMul(kw.spf_kabco, kw.af_total), kw.cf_total), kw.num_years)

(* exp_kabco, with k retrieved from the spf reference; obs_kabco may be    *)
(* None.                                                                   *)
exp_kabco(kw, leaf) ==
    IF kw.obs_kabco = NoNumber \/ kw.obs_kabco = R(-1) THEN R(-1)
    ELSE LET w == RatDiv(R(1), RatAdd(R(1),
                             RatMul(RatDiv(leaf.k, kw.length), kw.pred_kabco)))
         IN RatAdd(RatMul(w, kw.pred_kabco),
                   RatMul(RatSub(R(1), w), kw.obs_kabco))

(* model.elements.evaluate for the five layers of rtl_seg *)
rtl_seg_evaluate(kwargs, spf_leaf, calibration_leaf) ==
    LET layer0 ==
            [spf_kabco |-> spf_kabco(kwargs, spf_leaf),
             af_lane_width |-> af_lane_width(kwargs),
             af_shld |-> af_shld(kwargs),
             af_hor_curve |-> af_hor_curve(kwargs),
             af_se_var |-> af_se_var(kwargs),
             af_grade |-> af_grade(kwargs),
             af_dwy_density |-> af_dwy_density(kwargs),
             af_rumble_cl |-> af_rumble_cl(kwargs),
             af_passing_lanes |-> af_passing_lanes(kwargs),
             af_twltl |-> af_twltl(kwargs),
             af_rhr |-> af_rhr(kwargs),
             af_lighting |-> af_lighting(kwargs),
             af_ase |-> af_ase(kwargs)]
        e0 == Overlay(kwargs, layer0)
        e1 == Overlay(e0, [af_total |-> af_total(e0)])
        e2 == Overlay(e1, [cf_total |-> cf_total(e1, calibration_leaf)])
        e3 == Overlay(e2, [pred_kabco |-> pred_kabco(e2)])
    IN Overlay(e3, [exp_kabco |-> exp_kabco(e3, spf_leaf)])

RtlSegEvaluate(kwargs, spf_leaf, calibration_leaf) ==
    /\ op' = [name |-> "rtl_seg.evaluate", kwargs |-> kwargs,
              spf |-> spf_leaf, calibration |-> calibration_leaf]
    /\ out' = Val(rtl_seg_evaluate(kwargs, spf_leaf, calibration_leaf))
    /\ UNCHANGED <<locked, layers, validators, refs, references, chain, threads>>

(* The record of the scenario. *)
BaseRecord ==
    [aadt |-> R(5000), length |-> R(1), lane_width |-> R(12),
     shld_width |-> R(8), shld_type |-> "paved", rumble_cl |-> R(0),
     passing_lanes |-> R(0), twltl |-> R(0), curve_length |-> R(0),
     curve_radius |-> R(0), spiral_transition |-> R(0), se_var |-> R(0),
     grade |-> R(0), dwy_density |-> R(0), rhr |-> R(3), lighting |-> R(0),
     ase |-> R(0), obs_kabco |-> R(-1), num_years |-> R(1)]

RtlRecords ==
    {[BaseRecord EXCEPT !.aadt = aadt, !.shld_width = shld_width,
                        !.lane_width = lane_width, !.twltl = twltl,
                        !.passing_lanes = passing_lanes,
                        !.obs_kabco = obs_kabco] :
        aadt \in {R(300), R(5000)}, shld_width \in {R(6), R(8)},
        lane_width \in {R(12), R(13)}, twltl \in {R(0), R(1)},
        passing_lanes \in {R(0), R(1)}, obs_kabco \in {R(-1), NoNumber}}

SpfLeaves ==
    {[a |-> a, b |-> R(0), cf |-> R(1), k |-> Rat(236, 1000)] :
        a \in {R(1), Rat(1, 2)}}

CalibrationLeaves == {[cf |-> R(1)], [cf |-> R(2)]}

NextRtlSeg ==
    \E kwargs \in RtlRecords, spf_leaf \in SpfLeaves,
       calibration_leaf \in CalibrationLeaves :
        RtlSegEvaluate(kwargs, spf_leaf, calibration_leaf)

SpecRtlSeg == Init /\ [][NextRtlSeg]_vars

(* C17 as stated: evaluating rtl_seg on the scenario's record yields       *)
(* af_total = 1.00 exactly, every adjustment factor being 1.0, so that     *)
(* pred_kabco = spf_kabco * cf_total, and exp_kabco = -1.                  *)
C17_BaseRecordAllOnes ==
    (op.name = "rtl_seg.evaluate" /\ op.kwargs = BaseRecord) =>
        /\ \A i \in 1..Len(AFNames) : out.val[AFNames[i]] = R(1)
        /\ out.val.af_total = R(1)
        /\ out.val.pred_kabco = RatMul(out.val.spf_kabco, out.val.cf_total)
        /\ out.val.exp_kabco = R(-1)

(* C17 amended: on the scenario's record af_shld is 0.92538 (an 8 ft      *)
(* paved shoulder at AADT above 2000), every other adjustment factor is    *)
(* 1.0, af_total = 0.92538, pred_kabco = spf_kabco * af_total * cf_total,  *)
(* and exp_kabco = -1.                                                     *)
C17_BaseRecordShoulderFactor ==
    (op.name = "rtl_seg.evaluate" /\ op.kwargs = BaseRecord) =>
        /\ out.val.af_shld = Rat(92538, 100000)
        /\ \A i \in 1..Len(AFNames) :
              AFNames[i] # "af_shld" => out.val[AFNames[i]] = R(1)
        /\ out.val.af_total = Rat(92538, 100000)
        /\ out.val.pred_kabco =
              RatMul(RatMul(out.val.spf_kabco, Rat(92538, 100000)),
                     out.val.cf_total)
        /\ out.val.exp_kabco = R(-1)

C17_Witness ==
    /\ op.name = "rtl_seg.evaluate"
    /\ op.kwargs = BaseRecord
    /\ out.val.af_shld = Rat(92538, 100000)
    /\ out.val.exp_kabco = R(-1)


(***************************************************************************)
(* Retrievals: references are added and queried directly.                  *)
(***************************************************************************)
Absent == [s |-> "", t |-> "absent", n |-> 0]

(* A query gives each of its keys a value. *)
QueryOf(l1, l2, severity, x) ==
    LET given == {p \in {<<"l1", l1>>, <<"l2", l2>>, <<"severity", severity>>,
                         <<"x", x>>} : p[2] # Absent}
    IN [k \in {p[1] : p \in given} |-> (CHOOSE p \in given : p[1] = k)[2]]

Queries ==
    {QueryOf(l1, l2, severity, x) :
        l1 \in {Absent, StrV("a"), IntV(1), StrV("c")},
        l2 \in {Absent, StrV("c"), StrV("a")},
        severity \in {Absent, StrV("kabc"), None},
        x \in {Absent, IntV(5)}}

NextRetrieve ==
    \/ \E obj \in {RefR, RefS, RefD} : AddReference(obj)
    \/ \E i \in 1..MaxRefs, kwargs \in Queries : Retrieve(i, kwargs)

SpecRetrieve == Init /\ [][NextRetrieve]_vars

(* The level values of a query, as strings, in declared level order. *)
PathOf(ref, kwargs) == [i \in 1..Len(ref.levels) |-> Str(kwargs[ref.levels[i]])]

(* C18: Reference.retrieve descends the data by str(value) of each level,  *)
(* in declared level order, and returns the leaf found there; it raises a  *)
(* KeyError when the query lacks a value for some level, a ReferenceError  *)
(* naming the reference and the key path when the path is not in the data, *)
(* and with zero levels returns the whole data whatever the query.         *)
C18_RetrieveDescends ==
    op.name = "retrieve" =>
        LET ref == op.ref
            kwargs == op.kwargs
        IN /\ (\E i \in 1..Len(ref.levels) : ref.levels[i] \notin DOMAIN kwargs)
                 => out.err = "KeyError"
           /\ (\A i \in 1..Len(ref.levels) : ref.levels[i] \in DOMAIN kwargs)
                 => IF PathOf(ref, kwargs) \in DOMAIN ref.data
                    THEN out = Val(ref.data[PathOf(ref, kwargs)])
                    ELSE /\ out.err = "ReferenceError"
                         /\ out.ref = ref.name
                         /\ out.args = PathOf(ref, kwargs)
           /\ ref.levels = <<>> => out = Val(ref.data[<<>>])

C18_Witness ==
    /\ op.name = "retrieve"
    /\ op.ref = RefR
    /\ op.kwargs = QueryOf(StrV("a"), StrV("c"), Absent, IntV(5))
    /\ out = Val([a |-> NumV(20 * 3 + 2 * 4)])


(***************************************************************************)
(* Bindings: two references that both supply the key b, a layer of         *)
(* elements bound to none, one or both of them in either declared order,   *)
(* and calls of elements.                                                  *)
(***************************************************************************)
RefT ==
    [name |-> "t", levels |-> <<>>, keys |-> <<"b">>, leaf |-> "mapping",
     data |-> [p \in {<<>>} |-> [b |-> NumV(6)]]]

FuncB == [fname |-> "fb", kwargs |-> {"b"}, comp |-> <<>>]

QueryT == << [ref |-> "t", q |-> <<>>] >>

BindingQueries == {NoRefs, QueryS, QueryS \o QueryT, QueryT \o QueryS}

BindingInputs == {NoKwargs, [b |-> NumV(10)], [x |-> NumV(2)]}

NextBindings ==
    \/ \E obj \in {RefS, RefT} : AddReference(obj)
    \/ AddFirstLayer
    \/ \E data \in BindingQueries : AddElement("AF", FuncB, data, FALSE, None)
    \/ \E i \in 1..MaxElements, kwargs \in BindingInputs : ElementCall(i, kwargs)

SpecBindings == Init /\ [][NextBindings]_vars

(* The leaf mappings of the bindings named, retrieved and merged over the  *)
(* keyword arguments one after the other in the order of the names.        *)
RECURSIVE merge_bindings(_, _, _)
merge_bindings(names, e, all_kwargs) ==
    IF names = <<>> THEN Val(all_kwargs)
    ELSE LET cb == CHOOSE c \in Range(e.callbacks) : c.target.name = Head(names)
             r == callback_call(cb, all_kwargs)
         IN IF r.err # "none" THEN r
            ELSE merge_bindings(Tail(names), e, Overlay(all_kwargs, r.val))

(* The reference names of a query, in the order declared. *)
DeclaredOrder(data) == [i \in 1..Len(data) |-> data[i].ref]

(* The reference names of a query, in the order of a collection. *)
CollectionOrder(data, coll) ==
    LET sel == SelectSeq(coll, LAMBDA r : r.name \in Range(DeclaredOrder(data)))
    IN [i \in 1..Len(sel) |-> sel[i].name]

(* The function is invoked with the merge of the bindings in this order. *)
InvokedWithMerge(e, names) ==
    \A kwargs \in BindingInputs :
        LET merged == merge_bindings(names, e, kwargs) IN
        /\ run_callbacks(e.callbacks, kwargs) = merged
        /\ merged.err = "none" =>
              /\ element_call(e, kwargs) = func_call(e, merged.val)
              /\ \A k \in DOMAIN kwargs :
                    \/ merged.val[k] = kwargs[k]
                    \/ \E c \in Range(e.callbacks) :
                          k \in Range(c.target.keys)

(* C19 as stated: the leaf mappings of an element's bindings are merged    *)
(* into the call's keyword arguments in the order the bindings are         *)
(* declared on the element, a later binding winning over an earlier one    *)
(* and a retrieved key over an input; the function gets the merged         *)
(* mapping.                                                                *)
C19_MergedInDeclaredOrder ==
    [][(op'.name = "add_element" /\ out'.err = "none" /\ num_layers > 0
        /\ layers' # layers) =>
          LET e == Added(layers[num_layers], layers'[num_layers], op'.kind)[1]
          IN InvokedWithMerge(e, DeclaredOrder(op'.refs))]_vars

(* C19 amended: the leaf mappings are merged in the order in which the     *)
(* bound references stand in the model's reference collection, whatever    *)
(* the order declared on the element.                                      *)
C19_MergedInCollectionOrder ==
    [][(op'.name = "add_element" /\ out'.err = "none" /\ num_layers > 0
        /\ layers' # layers) =>
          LET e == Added(layers[num_layers], layers'[num_layers], op'.kind)[1]
          IN InvokedWithMerge(e, CollectionOrder(op'.refs, references'))]_vars

(* An element bound to t and then s, in a model where s was added first:   *)
(* called with an input b, it is invoked with the b of t.                  *)
C19_Witness ==
    /\ op.name = "add_element"
    /\ out.err = "none"
    /\ op.refs = QueryT \o QueryS
    /\ references = <<RefS, RefT>>
    /\ registered # <<>>
    /\ LET e == registered[Len(registered)] IN
       /\ Len(e.callbacks) = 2
       /\ run_callbacks(e.callbacks, [b |-> NumV(10)]) = Val([b |-> NumV(6)])
       /\ element_call(e, [b |-> NumV(10)]) = Val(NumV(2 + 6))

(* The keys an element's own reference bindings supply. *)
bound_keys(e) == UNION {Range(c.target.keys) : c \in Range(e.callbacks)}

(* C20: Model.kwargs contains every declared parameter of every           *)
(* non-Hidden element that is neither the name of an element nor a key     *)
(* supplied by one of that element's own reference bindings.               *)
C20_KwargsCoverParameters ==
    \A e \in {h \in Range(registered) : h.kind # "Hidden"} :
        \A p \in e.kwargs :
            (p \notin element_names /\ p \notin bound_keys(e))
                => p \in Range(model_kwargs)

(***************************************************************************)
(* Hidden elements: required inputs and prediction output.                 *)
(***************************************************************************)
(* LayerCollection.kwargs, read as Model.elements.kwargs *)
CollectionKwargs ==
    /\ op' = [name |-> "kwargs"]
    /\ out' = Val(sorted(collection_kwargs))
    /\ UNCHANGED <<locked, layers, validators, refs, references, chain, threads>>

HiddenInputs == {[x |-> NumV(1), d |-> NumV(2), w |-> NumV(4)], [x |-> NumV(1)]}

HiddenTables ==
    {<<[x |-> NumV(1), d |-> NumV(2), w |-> NumV(4)],
       [x |-> NumV(3), d |-> NumV(0), w |-> NumV(2)]>>}

HiddenElements ==
    {<<"AF", FuncF>>, <<"Hidden", FuncF>>, <<"AF", FuncG>>, <<"Hidden", FuncG>>,
     <<"AF", FuncH>>}

NextHidden ==
    \/ AddLayer(None)
    \/ \E e \in HiddenElements : AddElement(e[1], e[2], NoRefs, FALSE, None)
    \/ CollectionKwargs
    \/ \E kwargs \in HiddenInputs : PredictOne(<<"d", "w", "x">>, kwargs)
    \/ \E records \in HiddenTables, merge \in BOOLEAN :
           Predict(<<"d", "w", "x">>, records, merge)

SpecHidden == Init /\ [][NextHidden]_vars

(* The elements of the i-th layer that are not Hidden, kind by kind. *)
Visible(i) ==
    UNION {Range(layers[i].elements[k]) : k \in KindSet \ {"Hidden"}}

(* The names of the elements of the i-th layer, of every kind. *)
NamesIn(i) ==
    {e.name : e \in UNION {Range(layers[i].elements[k]) : k \in KindSet}}

(* A layer's required inputs, as the statement gives them. *)
Required(i) == {p \in UNION {e.kwargs : e \in Visible(i)} : p \notin NamesIn(i)}

(* C21: LayerCollection.kwargs is the union of the layers' required        *)
(* inputs less the names of all elements of the graph, a layer's required  *)
(* inputs being the declared parameters of its non-Hidden elements less    *)
(* the names of the elements of that layer.                                *)
C21_KwargsLayeredDifference ==
    op.name = "kwargs" =>
        /\ Range(out.val) =
               {p \in UNION {Required(i) : i \in 1..num_layers} :
                   \A i \in 1..num_layers : p \notin NamesIn(i)}
        /\ \A i, j \in 1..Len(out.val) : out.val[i] = out.val[j] => i = j

(* A Hidden f(x) and an AF h(d, w) in the first layer, an AF g(f) in the   *)
(* second: x is asked of nobody, f comes from the first layer.             *)
C21_Witness ==
    /\ op.name = "kwargs"
    /\ num_layers = 2
    /\ \E e \in Range(layers[1].elements["Hidden"]) : e.name = "f"
    /\ \E e \in Range(layers[2].elements["AF"]) : "f" \in e.kwargs
    /\ out.val = <<"d", "w">>

(***************************************************************************)
(* Properties of validator conditions.                                     *)
(***************************************************************************)
(* A list or interval condition the record does not meet. *)
Unmet(c, kwargs) ==
    /\ c.key \in DOMAIN kwargs
    /\ kwargs[c.key].t = "num"
    /\ \/ c.t = "list" /\ kwargs[c.key] \notin c.values
       \/ /\ c.t = "tuple"
          /\ LET x == kwargs[c.key].n IN
             \/ x < c.lo
             \/ x > c.hi
             \/ x = c.lo /\ c.closed \notin {"left", "both"}
             \/ x = c.hi /\ c.closed \notin {"right", "both"}

(* C22: when a condition of a validator is unmet, validate returns the     *)
(* supplied value unchanged under 'pass' and raises ConditionError under   *)
(* 'raise'; the enforcement policy is not applied.                         *)
C22_UnmetConditionsBypass ==
    (/\ op.name = "validator.validate"
     /\ \E i \in 1..Len(op.v.conditions) : Unmet(op.v.conditions[i], op.kwargs))
        => /\ op.conditions = "pass" => out = Val(op.kwargs[op.v.key])
           /\ op.conditions = "raise" => out.err = "ConditionError"

(* The conditions are unmet and the value is one that enforcement would    *)
(* have replaced.                                                          *)
C22_Witness ==
    /\ op.name = "validator.validate"
    /\ op.conditions = "pass"
    /\ \E i \in 1..Len(op.v.conditions) : Unmet(op.v.conditions[i], op.kwargs)
    /\ out = Val(op.kwargs[op.v.key])
    /\ op.v.cls = "Limits"
    /\ limits_enforce(op.v, op.kwargs) # out

(***************************************************************************)
(* The lock gate over a whole life of the model: toggles, registrations    *)
(* that pass or fail, and evaluations.                                     *)
(***************************************************************************)
LockLayerNames == {None, IntV(0)}
LockEvaluated == [x |-> NumV(1)]
LockPredicted == [x |-> NumV(9)]

NextLock ==
    \/ Lock
    \/ Unlock
    \/ \E name \in LockLayerNames : AddLayer(name)
    \/ \E obj \in {RefS} : AddReference(obj)
    \/ \E obj \in {ValidatorX} : AddValidator(obj)
    \/ AddElement("AF", FuncF, NoRefs, FALSE, None)
    \/ Evaluate(LockEvaluated)
    \/ PredictOne(<<"x">>, LockPredicted)

SpecLock == Init /\ [][NextLock]_vars

(* C23: a model starts unlocked; lock() sets the flag, unlock() clears it  *)
(* and no other call changes it, so that a registration call passes the    *)
(* lock gate exactly when the most recent lock()/unlock() call was         *)
(* unlock() or there was none.                                             *)
C23_GateFollowsLastToggle ==
    /\ ~locked
    /\ [][/\ op'.name = "lock" => locked'
          /\ op'.name = "unlock" => ~locked'
          /\ op'.name \notin {"lock", "unlock"} => locked' = locked
          /\ op'.name \in MutatorOps =>
                (out'.err = "ModelLockedError" <=> locked)]_vars

(* unlock() found a populated model locked and opened it again. *)
C23_Witness ==
    /\ op.name = "unlock"
    /\ op.was
    /\ ~locked
    /\ registered # <<>>
    /\ validators # <<>>

(***************************************************************************)
(* Concurrent predictions.  Each thread runs Model.predict_one on the same *)
(* built and locked model; a step of a thread is the validation of one key *)
(* of its record, the call of one element of the current layer, or the     *)
(* merge of a finished layer into its namespace.                           *)
(***************************************************************************)
FuncK == [fname |-> "k", kwargs |-> {"b", "h"}, comp |-> <<>>]

BuiltLayers ==
    << layer_add_all(Layer(IntV(0)),
                     << Element("AF", FuncH, <<>>, ""),
                        Element("AF", FuncF, <<>>, "") >>),
       layer_add_all(Layer(IntV(1)),
                     << Element("Result", FuncK,
                                << [target |-> RefS, data_kwargs |-> <<>>] >>,
                                "") >>) >>

InitBuilt ==
    /\ locked = TRUE
    /\ layers = BuiltLayers
    /\ validators = <<LimitsWSnap, LimitsDSnap>>
    /\ refs = <<RefS>>
    /\ references = <<RefS>>
    /\ chain = <<>>
    /\ threads = [t \in Threads |-> Idle]
    /\ op = NoOp
    /\ out = Ok

ThreadRecords ==
    { [keys |-> <<"w", "d", "x">>,
       kwargs |-> [w |-> NumV(1), d |-> NumV(-1), x |-> NumV(1)]],
      [keys |-> <<"d", "w", "x">>,
       kwargs |-> [w |-> NumV(7), d |-> NumV(9), x |-> NumV(1)]],
      [keys |-> <<"w", "d">>, kwargs |-> [w |-> NumV(7), d |-> NumV(9)]] }

(* The calls in progress. *)
Running == {t \in Threads : threads[t].pc \in {"validate", "evaluate"}}

(* The namespace an evaluation reads and extends: its own, created by the  *)
(* call (validated = kwargs.copy(), evaluated = {**kwargs}).               *)
namespace_shared(t) ==
    IF threads[t].pc = "validate" THEN threads[t].validated
    ELSE threads[1].evaluated

namespace(t) ==
    IF threads[t].pc = "validate" THEN threads[t].validated
    ELSE threads[t].evaluated

(* Model.predict_one is entered: Model.validate copies the record. *)
PredictBegin(t, keys, kwargs) ==
    /\ threads[t].pc \in {"idle", "done"}
    /\ threads' = [threads EXCEPT ![t] =
           [Idle EXCEPT !.pc = "validate", !.keys = keys, !.kwargs = kwargs,
                        !.k = 1, !.validated = kwargs, !.during = Running]]
    /\ UNCHANGED <<locked, layers, validators, refs, references, chain, op, out>>

(* Model.validate, one pass of `for key, arg in kwargs.items()`; after the *)
(* last key LayerCollection.evaluate is entered with the validated record. *)
PredictValidate(t) ==
    /\ threads[t].pc = "validate"
    /\ LET th == threads[t] IN
       IF th.k > Len(th.keys)
       THEN threads' = [threads EXCEPT ![t] =
                [th EXCEPT !.pc = "evaluate", !.layer = 1, !.e = 1,
                           !.evaluated = namespace(t)]]
       ELSE LET key == th.keys[th.k]
                r == apply_validators(validator_list(key), namespace(t), key,
                                      th.kwargs[key])
            IN IF r.err # "none"
               THEN threads' = [threads EXCEPT ![t] =
                        [th EXCEPT !.pc = "done", !.result = r]]
               ELSE threads' = [threads EXCEPT ![t] =
                        [th EXCEPT !.k = @ + 1, !.validated = r.val]]
    /\ UNCHANGED <<locked, layers, validators, refs, references, chain, op, out>>

(* LayerCollection.evaluate and Layer.evaluate: the next element of the    *)
(* current layer is called with the layer's keyword arguments; a finished  *)
(* layer is merged into the namespace; after the last layer the Prediction *)
(* is built from the namespace.                                            *)
PredictEvaluate(t) ==
    /\ threads[t].pc = "evaluate"
    /\ LET th == threads[t] IN
       IF th.layer > num_layers
       THEN threads' = [threads EXCEPT ![t] =
                [th EXCEPT !.pc = "done", !.result = Val(namespace(t))]]
       ELSE IF th.e > Len(unsorted(layers[th.layer]))
       THEN threads' = [threads EXCEPT ![t] =
                [th EXCEPT !.evaluated = Overlay(namespace(t), th.layer_out),
                           !.layer_out = <<>>, !.layer = @ + 1, !.e = 1]]
       ELSE LET elem == unsorted(layers[th.layer])[th.e]
                r == element_call(elem,
                                  layer_call_kwargs(namespace(t), th.layer_out))
            IN IF r.err # "none"
               THEN threads' = [threads EXCEPT ![t] =
                        [th EXCEPT !.pc = "done", !.result = Raise(r.err)]]
               ELSE threads' = [threads EXCEPT ![t] =
                        [th EXCEPT !.e = @ + 1,
                                   !.layer_out = Overlay(@, elem.name :> r.val)]]
    /\ UNCHANGED <<locked, layers, validators, refs, references, chain, op, out>>

NextConcurrent ==
    \/ \E t \in Threads, rec \in ThreadRecords :
           PredictBegin(t, rec.keys, rec.kwargs)
    \/ \E t \in Threads : PredictValidate(t)
    \/ \E t \in Threads : PredictEvaluate(t)

SpecConcurrent == InitBuilt /\ [][NextConcurrent]_vars

(* C24: predict_one calls on a built and locked model that interleave in   *)
(* any way each end with the Prediction (or the error) the same call gives *)
(* when it runs alone, and no step of a call writes the model's graph,     *)
(* validators, references or lock.                                         *)
C24_InterleavedAsAlone ==
    /\ [](\A t \in Threads :
             threads[t].pc = "done" =>
                 threads[t].result =
                     predict_one(threads[t].keys, threads[t].kwargs))
    /\ [][UNCHANGED <<locked, layers, validators, refs, references>>]_vars

(* The second thread ran from start to end while the first, called with    *)
(* another record, was in its evaluation, and both records are snapped.    *)
C24_Witness ==
    /\ threads[2].pc = "done"
    /\ threads[2].during = {1}
    /\ threads[2].result.err = "none"
    /\ threads[2].result.val["d"] # threads[2].kwargs["d"]
    /\ threads[1].pc = "evaluate"
    /\ threads[1].layer = 2
    /\ threads[1].kwargs # threads[2].kwargs
    /\ threads[1].evaluated["d"] # threads[1].kwargs["d"]

(* The names borne by Hidden elements only. *)
HiddenNames ==
    {e.name : e \in {h \in Range(registered) : h.kind = "Hidden"}}
    \ {e.name : e \in {h \in Range(registered) : h.kind # "Hidden"}}

(* C25: no Hidden element's name is a key of Prediction.data, nor a column *)
(* of the merged output of a batch prediction.                             *)
C25_HiddenNotInOutput ==
    /\ (op.name = "predict_one" /\ out.err = "none") =>
           HiddenNames \cap DOMAIN out.val = {}
    /\ (op.name = "predict" /\ out.err = "none" /\ op.merge) =>
           HiddenNames \cap out.columns = {}

(***************************************************************************)
(* Registration with a layer argument.                                     *)
(***************************************************************************)
LayerArgs == {None, IntV(0), IntV(1), StrV("a"), StrV("f")}

LayerArgNames == {None, StrV("a")}

NextLayerArg ==
    \/ \E name \in LayerArgNames : AddLayer(name)
    \/ \E func \in {FuncF, FuncA}, layer \in LayerArgs :
           AddElement("AF", func, NoRefs, FALSE, layer)

SpecLayerArg == Init /\ [][NextLayerArg]_vars

(* The layers the argument designates: those of that name. *)
Designated(layer) == {i \in 1..num_layers : layers[i].name = layer}

(* C26: an element registered with a layer argument is added to the layer  *)
(* so designated and to no other; without one it is added to the most      *)
(* recently added layer; with no layer in the model the registration       *)
(* raises and registers nothing.                                           *)
C26_ElementGoesToDesignatedLayer ==
    [][(op'.name = "add_element" /\ ~locked) =>
          LET obj == Element(op'.kind, op'.func, <<>>, "")
              into(i) == [layers EXCEPT ![i] = layer_add_element(@, obj)]
          IN IF num_layers = 0
             THEN out'.err # "none" /\ layers' = layers
             ELSE IF op'.layer = None
             THEN out'.err = "none" /\ layers' = into(num_layers)
             ELSE \A i \in Designated(op'.layer) :
                     out'.err = "none" /\ layers' = into(i)]_vars

(***************************************************************************)
(* Bindings with fixed query values, called with namespaces that do and do *)
(* not hold a value under a fixed key.                                     *)
(***************************************************************************)
QueryL1 ==
    << [ref |-> "r", q |-> << [level |-> "l1", values |-> <<StrV("mv")>>] >>] >>

OverlapQueries == {QueryL1, QueryR(<<StrV("sv")>>, <<StrV("o")>>)}

OverlapInputs ==
    {NoKwargs, [l2 |-> StrV("kabc")], [l1 |-> StrV("sv"), l2 |-> StrV("kabc")],
     [l1 |-> StrV("mv"), l2 |-> StrV("o"), a |-> NumV(2)]}

NextOverlap ==
    \/ AddReference(RefR)
    \/ AddFirstLayer
    \/ \E data \in OverlapQueries : AddElement("AF", FuncA, data, FALSE, None)
    \/ \E i \in 1..MaxElements, kwargs \in OverlapInputs : ElementCall(i, kwargs)

SpecOverlap == Init /\ [][NextOverlap]_vars

(* The leaf a binding retrieves for a namespace: the reference queried     *)
(* with the namespace merged with the binding's fixed values.              *)
Resolved(cb, kwargs) == retrieve(cb.target, Overlay(kwargs, cb.data_kwargs))

(* C27: a binding is resolved with the namespace merged with its fixed     *)
(* query values for every namespace, also one that holds a value under a   *)
(* fixed key: where that query finds a leaf, the element evaluates with    *)
(* the leaf merged into its keyword arguments.                             *)
C27_BindingResolvedOnOverlap ==
    (/\ op.name = "element"
     /\ Len(op.e.callbacks) = 1
     /\ Resolved(op.e.callbacks[1], op.kwargs).err = "none")
        => LET leaf == Resolved(op.e.callbacks[1], op.kwargs).val
               res == func_call(op.e, Overlay(op.kwargs, leaf))
           IN /\ out.err = "none"
              /\ chain = << [res |-> ResOperator(Rat(res.val.n, 2), op.e),
                             ref |-> "", comp |-> <<>>] >>

(***************************************************************************)
(* Conditions given as nested validators.                                  *)
(***************************************************************************)
ValidatorCond(key, v) == [t |-> "validator", key |-> key, v |-> v]

WNarrow == Limits("w", Const(0), Const(4), "both", "float", "strict", <<>>)

WListed == Values("w", {NumV(2), NumV(8)}, "int", None, "strict", <<>>)

NestedPool ==
    {Limits("d", Const(0), Const(6), "both", "float", "strict",
            <<ValidatorCond("w", WNarrow)>>),
     Limits("d", Const(2), Const(4), "both", "float", "snap",
            <<ValidatorCond("w", WListed)>>),
     Values("d", {NumV(2)}, "float", NumV(2), "default",
            <<ValidatorCond("w", WNarrow)>>)}

NestedRecords ==
    {[d |-> d, w |-> w] : d \in {NumV(-1), NumV(2), NumV(9)},
                          w \in {NumV(2), NumV(7), StrV("wide")}}
    \cup {[d |-> NumV(9)]}

NextNested ==
    \/ \E obj \in NestedPool : AddValidator(obj)
    \/ \E i \in 1..MaxValidators, conditions \in {"pass", "raise"},
          kwargs \in NestedRecords :
           ValidatorValidate(i, conditions, kwargs)

SpecNested == Init /\ [][NextNested]_vars

(* The validation of the record by the nested validator of the validator's *)
(* one condition, as check_conditions calls it.                            *)
NestedOutcome == validate(op.v.conditions[1].v, "pass", op.kwargs)

(* C28: a condition given as a nested validator is met exactly when the    *)
(* nested validation of the record raises nothing: then the validator      *)
(* enforces its policy, and every error of the nested validation gives the *)
(* outcome of unmet conditions instead of reaching the caller.             *)
C28_NestedErrorsMeanUnmet ==
    (op.name = "validator.validate" /\ op.v.key \in DOMAIN op.kwargs) =>
        IF NestedOutcome.err = "none"
        THEN out = (IF op.v.cls = "Limits" THEN limits_enforce(op.v, op.kwargs)
                    ELSE values_enforce(op.v, op.kwargs))
        ELSE /\ op.conditions = "pass" => out = Val(op.kwargs[op.v.key])
             /\ op.conditions = "raise" => out.err = "ConditionError"

(***************************************************************************)
(* Snapping validators whose interval is open at an end or shifted by      *)
(* other keys of the record.                                               *)
(***************************************************************************)
SnapClosed == Limits("d", Const(0), Const(4), "both", "float", "snap", <<>>)

SnapOpen == Limits("d", Const(0), Const(4), "left", "float", "snap", <<>>)

SnapShifted ==
    [Limits("d", Const(0), Const(8), "both", "float", "snap", <<>>)
        EXCEPT !.subtract = <<"s">>, !.add = <<"s">>]

SnapPool == {SnapClosed, SnapOpen, SnapShifted}

SnapRecords == {[d |-> NumV(d), s |-> NumV(s)] : d \in {-1, 3, 9}, s \in {0, 2}}

NextSnap ==
    \/ \E obj \in SnapPool : AddValidator(obj)
    \/ \E i \in 1..MaxValidators, conditions \in {"pass", "raise"},
          kwargs \in SnapRecords :
           ValidatorValidate(i, conditions, kwargs)

SpecSnap == Init /\ [][NextSnap]_vars

(* C29: the value Limits.validate returns under enforce='snap' with the    *)
(* conditions met passes the validator's own check_limits for the record.  *)
C29_SnapWithinOwnLimits ==
    (/\ op.name = "validator.validate"
     /\ op.v.cls = "Limits"
     /\ op.v.enforce = "snap"
     /\ check_conditions(op.v, op.kwargs) = Val(TRUE)
     /\ out.err = "none")
        => check_own_limits(op.v, out.val, op.kwargs) = Val(TRUE)

(***************************************************************************)
(* The composition of a converted result.                                  *)
(***************************************************************************)
(* C30: the ResOperator returned by convert(ref, comp) reports comp as its *)
(* composition, and the result converted keeps its value and composition.  *)
C30_ConvertedReportsTarget ==
    [][(op'.name = "convert" /\ out'.err = "none") =>
          /\ res_comp(chain'[Len(chain')].res) = op'.comp
          /\ Len(chain') = Len(chain) + 1
          /\ SubSeq(chain', 1, Len(chain)) = chain]_vars

====
